---- MODULE Spec2Model ----
(***************************************************************************)
(* Rate limiting subsystem of go-obvious/server                            *)
(* (internal/middleware/ratelimit): the token bucket, sliding window and   *)
(* fixed window limiters over their keyed state maps.                      *)
(*                                                                         *)
(* Time is counted in ticks; one millisecond is TicksPerMs ticks, so that  *)
(* durations below a millisecond exist.  A token bucket's float64 token    *)
(* count is held exactly, as the integer tokens * window (window in        *)
(* ticks): the refill elapsed * rate = elapsed * requests / window is then *)
(* the integer elapsed * requests, and 1.0 token is `window` units.        *)
(*                                                                         *)
(* Spec is the limiters called one call at a time.  The other              *)
(* specifications each drive one more part of the repository and leave     *)
(* the rest idle: ConcSpec the limiter's lock under concurrent callers,    *)
(* MwSpec the HTTP middleware, FnSpec the pure conversions (Retry-After    *)
(* header, key extraction, configuration validation) and RegistrySpec the  *)
(* configuration registry.                                                 *)
(***************************************************************************)
EXTENDS Integers, Sequences, FiniteSets, TLC

\* ------------------------------------------------------------------ bounds
MaxRequests == 2
MaxWindow   == 3
MaxBurst    == 2
MaxTime     == 4
\* concurrent callers: the clock's last reading
ConcMaxTime == 1

\* time.Millisecond, in ticks
TicksPerMs  == 2

\* The waits an infinite tokensNeeded/rate can turn into: the conversion
\* of +Inf to time.Duration is implementation-specific, and when the product
\* with time.Millisecond is not positive the wait is set to 1ms.
InfiniteWaits == {TicksPerMs, 2 * TicksPerMs}

\* the client keys: one key and another
Keys == {"A", "B"}
Time == 0..MaxTime

TokenBucket   == "token_bucket"
SlidingWindow == "sliding_window"
FixedWindow   == "fixed_window"
Algorithms    == {TokenBucket, SlidingWindow, FixedWindow}

VARIABLES
    cfg,            \* Config: algorithm, requests, window, burst
    now,            \* the clock read by time.Now()
    buckets,        \* TokenBucketLimiter.buckets: key -> [tokens, lastSeen]
    slidingWindows, \* SlidingWindowLimiter.windows: key -> timestamps
    fixedWindows,   \* FixedWindowLimiter.windows: key -> [count, windowStart]
    admitted,       \* history: times, within the last `window`, of the allowed calls
                    \*          of a key since its state was created
    newborn,        \* history: keys whose state was created at the current clock reading
    wasReset,       \* history: keys that Reset has removed at least once
    last,           \* history: key -> outcome of the latest Allow since the key's state was created
    \* concurrent callers of one limiter
    mu,             \* the limiter's mutex: its holder, or NoCaller
    pc,             \* caller -> where it is in its call
    call,           \* caller -> the call it is making, [op, key]
    snap,           \* caller -> what its call has read: the clock and the key's map entry
    tally,          \* history: key -> calls started, allowed and denied since the key's
                    \*          state was created, and whether all of them read one clock value
    contended,      \* history: some caller has waited for the mutex
    \* HTTP middleware
    mw,             \* Config: enabled
    resp,           \* the response to the latest request
    served,         \* number of requests served
    \* pure conversions
    arg,            \* the input
    out,            \* the result, NoResult before the conversion is applied
    \* configuration registry
    configurations, \* config.configurations: the registered Configurables
    loaded,         \* the Configurables whose Load has returned nil
    loadCalls,      \* history: the Configurables the latest config.Load has called, in order
    loadResult,     \* what the latest config.Load returned
    \* a polling caller
    poll,           \* history: the run of denied polls in progress or just ended
    \* server lifecycle
    app,            \* the server value: apis, isHTTPListener
    runState,       \* Run: where it is, the listener goroutine, the requests in flight
    trace,          \* history: the lifecycle events in the order they happened
    health,         \* healthz: the checker, and the goroutines of one Run
    registry        \* config: the slice, its mutex, one writer and one Load

limiterVars == <<cfg, now, buckets, slidingWindows, fixedWindows,
                 admitted, newborn, wasReset, last>>
concVars == <<mu, pc, call, snap, tally, contended>>
mwVars == <<mw, resp, served>>
fnVars == <<arg, out>>
registryVars == <<configurations, loaded, loadCalls, loadResult>>

pollVars == <<poll>>
lifeVars == <<app, runState, trace>>
healthVars == <<health>>
loaderVars == <<registry>>

vars == <<limiterVars, concVars, mwVars, fnVars, registryVars, pollVars, lifeVars, healthVars, loaderVars>>

\* ------------------------------------------------------------ Go map helpers
Min(a, b) == IF a < b THEN a ELSE b

\* variant: the assignment drops every other key
PutAlone(m, key, v) == [j \in {key} |-> v]
\* m[key] = v
Put(m, key, v) == [j \in (DOMAIN m) \cup {key} |-> IF j = key THEN v ELSE m[j]]

\* variants of delete: one that empties the map, one that removes nothing
DeleteAll(m, key) == [j \in {} |-> m[j]]
KeepKey(m, key) == m
\* delete(m, key)
Delete(m, key) == [j \in (DOMAIN m) \ {key} |-> m[j]]

EmptyMap == [j \in {} |-> 0]

\* --------------------------------------------------------------- token bucket
\* variant: the burst setting is not honoured
CapacityIgnoresBurst(requests, burst) == requests
\* NewTokenBucketLimiter: capacity
Capacity(requests, burst) == IF burst <= 0 THEN requests ELSE burst

\* 1.0 token, and the full bucket, in stored units
One  == cfg.window
Full == Capacity(cfg.requests, cfg.burst) * One

\* variant: the bucket refills at twice the rate
RefillTwice(tokens, elapsed) == Min(tokens + 2 * elapsed * cfg.requests, Full)
\* variant: the refill is not clamped at capacity
RefillUnclamped(tokens, elapsed) == tokens + elapsed * cfg.requests
\* bucket.tokens += elapsed * rate, clamped at capacity
Refill(tokens, elapsed) == Min(tokens + elapsed * cfg.requests, Full)

\* variant: without the floor of one millisecond
TokenWaitNoFloor(tokens) ==
    TicksPerMs * ((One - tokens) \div (cfg.requests * TicksPerMs))
\* time.Duration(tokensNeeded/rate*1000) * time.Millisecond, at least 1ms:
\* the conversion to time.Duration drops the fraction of a millisecond
TokenWait(tokens) ==
    LET need == One - tokens
        ms   == need \div (cfg.requests * TicksPerMs)
    IN  TicksPerMs * (IF ms <= 0 THEN 1 ELSE ms)

\* ------------------------------------------------------------- sliding window
\* variant: nothing is pruned
PruneNothing(timestamps, cutoff) == timestamps
\* variant: a timestamp exactly one window old is still counted
KeepAtCutoff(timestamps, cutoff) == SelectSeq(timestamps, LAMBDA t : t >= cutoff)
\* the timestamps with ts.After(cutoff), in order
Prune(timestamps, cutoff) == SelectSeq(timestamps, LAMBDA t : t > cutoff)

\* variant: an admission is put in front
AdmitInFront(timestamps, t) == <<t>> \o timestamps
\* window.timestamps = append(window.timestamps, now)
Admit(timestamps, t) == Append(timestamps, t)

\* variant: one admission too many
SlidingHasRoomOffByOne(n, requests) == n <= requests
\* len(window.timestamps) < swl.requests
SlidingHasRoom(n, requests) == n < requests

\* --------------------------------------------------------------- fixed window
\* variant: every call rolls the window
ExpiredAlways(elapsed, window) == TRUE
\* variants: the window rolls one tick late, one tick early
ExpiredLate(elapsed, window) == elapsed > window
ExpiredEarly(elapsed, window) == elapsed + 1 >= window
\* now.Sub(window.windowStart) >= fwl.window
Expired(elapsed, window) == elapsed >= window

\* variant: one admission too many
FixedHasRoomOffByOne(count, requests) == count <= requests
\* variant: the count is never checked
FixedHasRoomAlways(count, requests) == TRUE
\* variant: the last request of the quota is refused
FixedHasRoomStrict(count, requests) == count + 1 < requests
\* window.count < fwl.requests
FixedHasRoom(count, requests) == count < requests

\* ----------------------------------------------------------- one Allow(key)
\* What Allow(key) does with the map m when it reads the clock value t: the
\* entry it leaves for the key, its decision and wait time, and whether it
\* panics.  `inf` is the wait the token bucket derives from an infinite
\* tokensNeeded/rate (rate 0), whose conversion to time.Duration is
\* implementation-specific.
\* variant: a denial empties the bucket
KeptNothing(found, refilled) == 0
\* variant: a denial leaves the token count as it found it
KeptAsFound(found, refilled) == found
\* bucket.tokens after a denial: the refill has been added to it
Kept(found, refilled) == refilled

TokenBucketStep(m, key, t, inf) ==
    LET exists  == key \in DOMAIN m
        bucket  == IF exists THEN m[key] ELSE [tokens |-> Full, lastSeen |-> t]
        elapsed == t - bucket.lastSeen
        tokens  == Refill(bucket.tokens, elapsed)
        ok      == tokens >= One
    IN  [ entry  |-> [tokens   |-> IF ok THEN tokens - One
                                   ELSE Kept(bucket.tokens, tokens),
                      lastSeen |-> t],
          ok     |-> ok,
          wait   |-> IF ok THEN 0
                     ELSE IF cfg.requests = 0 THEN inf ELSE TokenWait(tokens),
          panic  |-> FALSE,
          rolled |-> FALSE ]

\* With no timestamp retained and no room (requests <= 0) the read of
\* window.timestamps[0] is out of range and panics.
SlidingWindowStep(m, key, t) ==
    LET exists == key \in DOMAIN m
        stored == IF exists THEN m[key] ELSE <<>>
        cutoff == t - cfg.window
        valid  == Prune(stored, cutoff)
        ok     == SlidingHasRoom(Len(valid), cfg.requests)
        panic  == ~ok /\ Len(valid) = 0
    IN  [ entry  |-> IF ok THEN Admit(valid, t) ELSE valid,
          ok     |-> ok,
          wait   |-> IF ok \/ panic THEN 0 ELSE cfg.window - (t - valid[1]),
          panic  |-> panic,
          rolled |-> FALSE ]

FixedWindowStep(m, key, t) ==
    LET exists  == key \in DOMAIN m
        stored  == IF exists THEN m[key] ELSE [count |-> 0, windowStart |-> t]
        expired == Expired(t - stored.windowStart, cfg.window)
        window  == IF expired THEN [count |-> 0, windowStart |-> t] ELSE stored
        ok      == FixedHasRoom(window.count, cfg.requests)
    IN  [ entry  |-> IF ok THEN [window EXCEPT !.count = @ + 1] ELSE window,
          ok     |-> ok,
          wait   |-> IF ok THEN 0 ELSE cfg.window - (t - window.windowStart),
          panic  |-> FALSE,
          rolled |-> exists /\ expired ]

\* -------------------------------------------------------------------- history
\* the times of a history that are not before `from`
Since(times, from) == SelectSeq(times, LAMBDA t : t >= from)

\* How an Allow(key) at `now` relates to the denial the preceding call for
\* the key returned: "none" when that call was not a denial, else whether
\* this call comes before, exactly at or after the end of the returned wait.
Retry(key) ==
    IF key \notin DOMAIN last \/ last[key].allowed THEN "none"
    ELSE IF now < last[key].readyAt THEN "early"
    ELSE IF now = last[key].readyAt THEN "exact"
    ELSE "late"

\* The outcome of an Allow(key) call: the decision, the time the returned
\* wait ends (readyAt = now + waitTime, 0 when allowed), whether the key was
\* unseen (fresh), how the call relates to a preceding denial (retry) and,
\* for the fixed window, whether the call rolled the window (rolled), the
\* time of the first request of the window now open (first) and whether
\* the window was rolled less than `window` after the first request of the
\* window it closed (rolledEarly).
Record(key, ok, wait, fresh, rolled, first, rolledEarly) ==
    /\ last' = Put(last, key,
                   [ allowed     |-> ok,
                     readyAt     |-> IF ok THEN 0 ELSE now + wait,
                     fresh       |-> fresh,
                     retry       |-> Retry(key),
                     rolled      |-> rolled,
                     first       |-> first,
                     rolledEarly |-> rolledEarly ])
    /\ admitted' = Put(admitted, key,
                       LET before == IF fresh THEN <<>> ELSE admitted[key]
                       IN  IF ok THEN Append(before, now) ELSE before)
    /\ newborn' = IF fresh THEN newborn \cup {key} ELSE newborn
    /\ UNCHANGED <<cfg, now, wasReset>>

\* ------------------------------------------------------------ the idle parts
NoCaller == "none"
NoResult == [kind |-> "none"]

\* the goroutines that call one limiter
Callers == {"c1", "c2", "c3"}

ConcIdle ==
    /\ mu = NoCaller
    /\ pc = [c \in Callers |-> "idle"]
    /\ call = [c \in Callers |-> NoResult]
    /\ snap = [c \in Callers |-> NoResult]
    /\ tally = EmptyMap
    /\ contended = FALSE

MwIdle ==
    /\ mw = [enabled |-> TRUE]
    /\ resp = NoResult
    /\ served = 0

FnIdle ==
    /\ arg = NoResult
    /\ out = NoResult

RegistryIdle ==
    /\ configurations = <<>>
    /\ loaded = {}
    /\ loadCalls = <<>>
    /\ loadResult = NoResult

PollIdle == poll = NoResult

LifeIdle ==
    /\ app = NoResult
    /\ runState = NoResult
    /\ trace = <<>>

HealthIdle == health = NoResult

LoaderIdle == registry = NoResult

\* ----------------------------------------------------------------------- Init
\* the configurations the validator accepts (Burst is a token bucket setting)
ValidConfigs ==
    { c \in [ algorithm : Algorithms,
              requests  : 1..MaxRequests,
              window    : 1..MaxWindow,
              burst     : 0..MaxBurst ] :
      c.algorithm # TokenBucket => c.burst = 0 }

\* a limiter as its constructor leaves it
NewLimiter ==
    /\ now = 0
    /\ buckets = EmptyMap
    /\ slidingWindows = EmptyMap
    /\ fixedWindows = EmptyMap
    /\ admitted = EmptyMap
    /\ newborn = {}
    /\ wasReset = {}
    /\ last = EmptyMap

Init ==
    /\ cfg \in ValidConfigs
    /\ NewLimiter
    /\ ConcIdle /\ MwIdle /\ FnIdle /\ RegistryIdle /\ PollIdle /\ LifeIdle /\ HealthIdle /\ LoaderIdle

\* -------------------------------------------------------------------- actions
\* time passes between two calls
Tick ==
    /\ now < MaxTime
    /\ now' = now + 1
    /\ admitted' = [k \in DOMAIN admitted |-> Since(admitted[k], now' - cfg.window)]
    /\ newborn' = {}
    /\ UNCHANGED <<cfg, buckets, slidingWindows, fixedWindows, wasReset, last>>

TokenBucketAllow(key) ==
    /\ cfg.algorithm = TokenBucket
    /\ \E inf \in (IF cfg.requests = 0 THEN InfiniteWaits ELSE {0}) :
        LET step == TokenBucketStep(buckets, key, now, inf)
        IN  /\ buckets' = Put(buckets, key, step.entry)
            /\ Record(key, step.ok, step.wait, key \notin DOMAIN buckets,
                      FALSE, 0, FALSE)
    /\ UNCHANGED <<slidingWindows, fixedWindows>>

SlidingWindowAllow(key) ==
    /\ cfg.algorithm = SlidingWindow
    /\ LET step == SlidingWindowStep(slidingWindows, key, now)
       IN  /\ slidingWindows' = Put(slidingWindows, key, step.entry)
           /\ Record(key, step.ok, step.wait, key \notin DOMAIN slidingWindows,
                     FALSE, 0, FALSE)
    /\ UNCHANGED <<buckets, fixedWindows>>

FixedWindowAllow(key) ==
    /\ cfg.algorithm = FixedWindow
    /\ LET step   == FixedWindowStep(fixedWindows, key, now)
           exists == key \in DOMAIN fixedWindows
       IN  /\ fixedWindows' = Put(fixedWindows, key, step.entry)
           /\ Record(key, step.ok, step.wait, ~exists, step.rolled,
                     IF exists /\ ~step.rolled THEN last[key].first ELSE now,
                     step.rolled /\ now - last[key].first < cfg.window)
    /\ UNCHANGED <<buckets, slidingWindows>>

Allow(key) ==
    \/ TokenBucketAllow(key)
    \/ SlidingWindowAllow(key)
    \/ FixedWindowAllow(key)

\* history kept by Reset: the key's history starts over
Forget(key) ==
    /\ admitted' = Delete(admitted, key)
    /\ newborn' = newborn \ {key}
    /\ last' = Delete(last, key)
    /\ wasReset' = wasReset \cup {key}
    /\ UNCHANGED <<cfg, now>>

TokenBucketReset(key) ==
    /\ cfg.algorithm = TokenBucket
    /\ buckets' = Delete(buckets, key)
    /\ Forget(key)
    /\ UNCHANGED <<slidingWindows, fixedWindows>>

SlidingWindowReset(key) ==
    /\ cfg.algorithm = SlidingWindow
    /\ slidingWindows' = Delete(slidingWindows, key)
    /\ Forget(key)
    /\ UNCHANGED <<buckets, fixedWindows>>

FixedWindowReset(key) ==
    /\ cfg.algorithm = FixedWindow
    /\ fixedWindows' = Delete(fixedWindows, key)
    /\ Forget(key)
    /\ UNCHANGED <<buckets, slidingWindows>>

Reset(key) ==
    \/ TokenBucketReset(key)
    \/ SlidingWindowReset(key)
    \/ FixedWindowReset(key)

\* the limiter's operations touch nothing outside the limiter
LimiterOnly == UNCHANGED <<concVars, mwVars, fnVars, registryVars, pollVars, lifeVars, healthVars,
                            loaderVars>>

Next ==
    \/ Tick /\ LimiterOnly
    \/ \E key \in Keys : Allow(key) /\ LimiterOnly
    \/ \E key \in Keys : Reset(key) /\ LimiterOnly

Spec == Init /\ [][Next]_vars

\* Time passes and clients keep sending requests.
FairSpec ==
    /\ Spec
    /\ WF_vars(Tick /\ LimiterOnly)
    /\ WF_vars(\E key \in Keys : Allow(key) /\ LimiterOnly)

\* ------------------------------------------------------- concurrent callers
\* Goroutines call Allow and Reset of one limiter, one call each.  A call locks the
\* limiter's mutex, reads the clock and the key's entry, computes and writes
\* the entry, and unlocks on return.

\* the map of the configured limiter
TheMap ==
    CASE cfg.algorithm = TokenBucket   -> buckets
      [] cfg.algorithm = SlidingWindow -> slidingWindows
      [] cfg.algorithm = FixedWindow   -> fixedWindows

SetTheMap(m) ==
    CASE cfg.algorithm = TokenBucket ->
             buckets' = m /\ UNCHANGED <<slidingWindows, fixedWindows>>
      [] cfg.algorithm = SlidingWindow ->
             slidingWindows' = m /\ UNCHANGED <<buckets, fixedWindows>>
      [] cfg.algorithm = FixedWindow ->
             fixedWindows' = m /\ UNCHANGED <<buckets, slidingWindows>>

StepOn(m, key, t, inf) ==
    CASE cfg.algorithm = TokenBucket   -> TokenBucketStep(m, key, t, inf)
      [] cfg.algorithm = SlidingWindow -> SlidingWindowStep(m, key, t)
      [] cfg.algorithm = FixedWindow   -> FixedWindowStep(m, key, t)

\* the entry of the key as a call reads it: a map with that entry or none
Entry(m, key) == [j \in (DOMAIN m) \cap {key} |-> m[j]]

\* variant: a mutex that excludes nobody
LockNeverHeld(holder) == TRUE
\* sync.Mutex.Lock returns once nobody holds the mutex
LockFree(holder) == holder = NoCaller

\* variant: goroutine c1 uses a clock reading taken before it locked
ClockBeforeLock(c, t) == IF c = "c1" THEN 0 ELSE t
\* now := time.Now(), after mu.Lock() has returned
ClockUnderLock(c, t) == t

NoTally == [started |-> 0, allowed |-> 0, denied |-> 0,
            reset |-> FALSE, first |-> 0, instant |-> TRUE]

ConcInit ==
    /\ cfg \in ValidConfigs
    /\ NewLimiter
    /\ mu = NoCaller
    /\ pc = [c \in Callers |-> "idle"]
    /\ call = [c \in Callers |-> NoResult]
    /\ snap = [c \in Callers |-> NoResult]
    /\ tally = [k \in Keys |-> NoTally]
    /\ contended = FALSE
    /\ MwIdle /\ FnIdle /\ RegistryIdle /\ PollIdle /\ LifeIdle /\ HealthIdle /\ LoaderIdle

ConcIdleRest ==
    UNCHANGED <<cfg, admitted, newborn, wasReset, last, mwVars, fnVars, registryVars,
                pollVars, lifeVars, healthVars, loaderVars>>

\* a goroutine calls limiter.Allow(key) or limiter.Reset(key)
Begin(c, kind, key) ==
    /\ pc[c] = "idle"
    /\ pc' = [pc EXCEPT ![c] = "lock"]
    /\ call' = [call EXCEPT ![c] = [kind |-> kind, key |-> key]]
    /\ tally' = [tally EXCEPT ![key] =
                    IF kind = "allow" THEN [@ EXCEPT !.started = @ + 1]
                    ELSE [@ EXCEPT !.reset = TRUE]]
    /\ contended' = (contended \/ mu # NoCaller)
    /\ UNCHANGED <<mu, snap, now, buckets, slidingWindows, fixedWindows>>
    /\ ConcIdleRest

\* mu.Lock()
Lock(c) ==
    /\ pc[c] = "lock"
    /\ LockFree(mu)
    /\ mu' = c
    /\ pc' = [pc EXCEPT ![c] = IF call[c].kind = "allow" THEN "read" ELSE "write"]
    /\ UNCHANGED <<call, snap, tally, contended, now, buckets, slidingWindows, fixedWindows>>
    /\ ConcIdleRest

\* now := time.Now(); entry, exists := map[key]
Read(c) ==
    /\ pc[c] = "read"
    /\ snap' = [snap EXCEPT ![c] = [kind |-> "read", t |-> ClockUnderLock(c, now),
                                    m |-> Entry(TheMap, call[c].key)]]
    /\ pc' = [pc EXCEPT ![c] = "write"]
    /\ UNCHANGED <<mu, call, tally, contended, now, buckets, slidingWindows, fixedWindows>>
    /\ ConcIdleRest

\* Allow: the computation and the write of the entry; Reset: the delete
Write(c) ==
    /\ pc[c] = "write"
    /\ LET key == call[c].key IN
       IF call[c].kind = "allow"
       THEN \E inf \in (IF cfg.requests = 0 THEN InfiniteWaits ELSE {0}) :
            LET step == StepOn(snap[c].m, key, snap[c].t, inf)
                seen == tally[key].allowed + tally[key].denied > 0
            IN  /\ SetTheMap(Put(TheMap, key, step.entry))
                /\ tally' = [tally EXCEPT ![key] =
                       [@ EXCEPT !.allowed = IF step.ok THEN @ + 1 ELSE @,
                                 !.denied  = IF step.ok THEN @ ELSE @ + 1,
                                 !.first   = IF seen THEN @ ELSE snap[c].t,
                                 !.instant = IF seen THEN @ /\ tally[key].first = snap[c].t
                                             ELSE TRUE]]
       ELSE /\ SetTheMap(Delete(TheMap, key))
            /\ UNCHANGED tally
    /\ pc' = [pc EXCEPT ![c] = "unlock"]
    /\ snap' = [snap EXCEPT ![c] = NoResult]
    /\ UNCHANGED <<mu, call, contended, now>>
    /\ ConcIdleRest

\* defer mu.Unlock()
Unlock(c) ==
    /\ pc[c] = "unlock"
    /\ mu' = NoCaller
    /\ pc' = [pc EXCEPT ![c] = "done"]
    /\ UNCHANGED <<call, snap, tally, contended, now, buckets, slidingWindows, fixedWindows>>
    /\ ConcIdleRest

\* time passes
ConcTick ==
    /\ now < ConcMaxTime
    /\ now' = now + 1
    /\ UNCHANGED <<concVars, buckets, slidingWindows, fixedWindows>>
    /\ ConcIdleRest

ConcNext ==
    \/ \E c \in Callers, kind \in {"allow", "reset"}, key \in Keys : Begin(c, kind, key)
    \/ \E c \in Callers : Lock(c)
    \/ \E c \in Callers : Read(c)
    \/ \E c \in Callers : Write(c)
    \/ \E c \in Callers : Unlock(c)
    \/ ConcTick

ConcSpec == ConcInit /\ [][ConcNext]_vars

\* ------------------------------------------------------------ key extraction
\* A header value or host is text; an address list is the sequence of its
\* comma-separated items.  Addresses as clients spell them:
Spellings == {"10.0.0.1", "10.0.0.2", "::ffff:10.0.0.1", "unknown"}

NoIP == ""

\* net.ParseIP followed by IP.String(): the canonical text of the address the
\* string spells, nothing for any other string (a list "a, b" included)
ParseIP(str) ==
    CASE str = "10.0.0.1"        -> "10.0.0.1"
      [] str = "10.0.0.2"        -> "10.0.0.2"
      [] str = "::ffff:10.0.0.1" -> "10.0.0.1"
      [] OTHER                   -> NoIP

\* the text of a header that carries the items of list
RECURSIVE HeaderText(_)
HeaderText(list) ==
    IF list = <<>> THEN ""
    ELSE IF Len(list) = 1 THEN list[1]
    ELSE list[1] \o ", " \o HeaderText(Tail(list))

HeaderValues ==
    {<<>>} \cup {<<a>> : a \in Spellings} \cup {<<a, b>> : a, b \in Spellings}

\* r.RemoteAddr: "host:port", or whatever else the server was handed
RemoteAddrs == [host : {"10.0.0.1", "10.0.0.2", "unknown"}, port : {"", "12345"}]
RemoteAddrText(remote) ==
    IF remote.port = "" THEN remote.host ELSE remote.host \o ":" \o remote.port

\* net.SplitHostPort: fails on an address without a port
SplitHostPort(remote) ==
    IF remote.port = "" THEN [err |-> TRUE, host |-> ""]
    ELSE [err |-> FALSE, host |-> remote.host]

\* requests: X-Forwarded-For, X-Real-IP, RemoteAddr and the configured header
HttpRequests ==
    [xff : HeaderValues, xri : HeaderValues, remote : RemoteAddrs, apiKey : {"", "k1"}]

\* variant: only the address of the connection is used
ExtractFromConnection(r) ==
    LET addr == SplitHostPort(r.remote)
    IN  IF ~addr.err /\ ParseIP(addr.host) # NoIP THEN ParseIP(addr.host)
        ELSE RemoteAddrText(r.remote)
\* extractIPFromRequest
ExtractIPFromRequest(r) ==
    LET xff  == HeaderText(r.xff)
        xri  == HeaderText(r.xri)
        addr == SplitHostPort(r.remote)
    IN  IF xff # "" /\ ParseIP(xff) # NoIP THEN ParseIP(xff)
        ELSE IF xri # "" /\ ParseIP(xri) # NoIP THEN ParseIP(xri)
        ELSE IF ~addr.err /\ ParseIP(addr.host) # NoIP THEN ParseIP(addr.host)
        ELSE RemoteAddrText(r.remote)

\* config.CustomKeyFunc when it is set: some function of the request
CustomKeyFunc(r) == "tenant"

\* extractKey
ExtractKey(r, config) ==
    CASE config.extractor = "ip" -> ExtractIPFromRequest(r)
      [] config.extractor = "header" ->
             IF r.apiKey = "" THEN ExtractIPFromRequest(r) ELSE r.apiKey
      [] config.extractor = "custom" ->
             IF config.customKeyFunc THEN CustomKeyFunc(r) ELSE ExtractIPFromRequest(r)
      [] OTHER -> ExtractIPFromRequest(r)

\* --------------------------------------------------------------- middleware
\* requests served, and the clock's last reading
MaxServed == 3
MwMaxTime == 2

\* int(waitTime.Seconds()) as the header value
\* Duration.Seconds: milliseconds in a second
MsPerSecond == 1000
TicksPerSecond == MsPerSecond * TicksPerMs
RetryAfterSeconds(wait) == wait \div TicksPerSecond

\* variant: every request is passed on
HandlerAlwaysRuns(allowed) == TRUE
\* if !allowed { ...; return }; next.ServeHTTP(w, r)
HandlerRuns(allowed) == allowed

\* variant: the limiter is installed although Enabled is false
AlwaysLimits(enabled) == TRUE
\* if !config.Enabled { return next }
Limits(enabled) == enabled

NoHeader == -1

\* any Config the middleware can be built with (Window > 0)
MwConfigs ==
    { c \in [ algorithm : Algorithms,
              requests  : 0..MaxRequests,
              window    : 1..MaxWindow,
              burst     : 0..MaxBurst ] :
      c.algorithm # TokenBucket => c.burst = 0 }

MwSettings ==
    { m \in [ enabled : BOOLEAN, extractor : {"ip", "header", "custom", ""},
              customKeyFunc : BOOLEAN ] :
      m.customKeyFunc => m.extractor = "custom" }

\* the requests the server receives
MwRequests ==
    { r \in HttpRequests :
        /\ r.xri = <<>>
        /\ r.xff \in {<<>>, <<"10.0.0.2">>, <<"::ffff:10.0.0.1">>}
        /\ r.remote = [host |-> "10.0.0.1", port |-> "12345"] }

MwInit ==
    /\ cfg \in MwConfigs
    /\ NewLimiter
    /\ mw \in MwSettings
    /\ resp = NoResult
    /\ served = 0
    /\ ConcIdle /\ FnIdle /\ RegistryIdle /\ PollIdle /\ LifeIdle /\ HealthIdle /\ LoaderIdle

MwIdleRest ==
    UNCHANGED <<cfg, admitted, newborn, wasReset, last, mw, concVars, fnVars, registryVars,
                pollVars, lifeVars, healthVars, loaderVars>>

\* the handler the middleware returns serves request r
Serve(r) ==
    /\ served < MaxServed
    /\ served' = served + 1
    /\ IF ~Limits(mw.enabled)
       THEN /\ resp' = [kind |-> "response", key |-> "", limited |-> FALSE,
                        allowed |-> FALSE, outcome |-> "handler", status |-> 200,
                        handlerCalls |-> 1, limitHeader |-> NoHeader,
                        windowHeader |-> NoHeader, retryAfter |-> NoHeader]
            /\ UNCHANGED <<buckets, slidingWindows, fixedWindows>>
       ELSE \E inf \in (IF cfg.requests = 0 THEN InfiniteWaits ELSE {0}) :
            LET key  == ExtractKey(r, mw)
                step == StepOn(TheMap, key, now, inf)
                runs == HandlerRuns(step.ok)
            IN  IF step.panic
                THEN /\ resp' = [kind |-> "response", key |-> key, limited |-> TRUE,
                                 allowed |-> FALSE, outcome |-> "panic", status |-> 0,
                                 handlerCalls |-> 0, limitHeader |-> NoHeader,
                                 windowHeader |-> NoHeader, retryAfter |-> NoHeader]
                     /\ SetTheMap(Put(TheMap, key, step.entry))
                ELSE /\ resp' = [kind |-> "response", key |-> key, limited |-> TRUE,
                                 allowed |-> step.ok,
                                 outcome |-> IF runs THEN "handler" ELSE "429",
                                 status |-> IF runs THEN 200 ELSE 429,
                                 handlerCalls |-> IF runs THEN 1 ELSE 0,
                                 limitHeader |-> cfg.requests,
                                 windowHeader |-> cfg.window,
                                 retryAfter |-> IF step.ok THEN NoHeader
                                                ELSE RetryAfterSeconds(step.wait)]
                     /\ SetTheMap(Put(TheMap, key, step.entry))
    /\ UNCHANGED now
    /\ MwIdleRest

\* time passes
MwTick ==
    /\ now < MwMaxTime
    /\ now' = now + 1
    /\ UNCHANGED <<buckets, slidingWindows, fixedWindows, resp, served>>
    /\ MwIdleRest

MwNext ==
    \/ \E r \in MwRequests : Serve(r)
    \/ MwTick

MwSpec == MwInit /\ [][MwNext]_vars

\* ------------------------------------------------------ server configuration
\* strings.ToLower on the names an environment can supply
ToLower(str) ==
    CASE str = "Token_Bucket"   -> "token_bucket"
      [] str = "SLIDING_WINDOW" -> "sliding_window"
      [] str = "IP"             -> "ip"
      [] str = "Header"         -> "header"
      [] OTHER                  -> str

\* variant: the names are compared as they are spelled
SameCase(str) == str
\* the folding validateRateLimit applies before it compares a name
Fold(str) == ToLower(str)

AlgorithmNames == {TokenBucket, SlidingWindow, FixedWindow}
ExtractorNames == {"ip", "header", "custom"}

\* the rate limit settings of config.Server as the environment supplies them;
\* earlierErr: envconfig.Process, validateCORS or validateTLS fails
ServerConfigs ==
    [ earlierErr : BOOLEAN,
      enabled    : BOOLEAN,
      requests   : -1..1,
      window     : -1..1,
      burst      : -1..1,
      algorithm  : AlgorithmNames \cup {"Token_Bucket", "SLIDING_WINDOW", "leaky_bucket", ""},
      extractor  : ExtractorNames \cup {"IP", "Header", "cookie", ""},
      header     : {"", "X-API-Key"} ]

NoError == ""

\* Server.validateRateLimit: the error it returns
ValidateRateLimit(c) ==
    LET algorithm == Fold(c.algorithm)
        extractor == Fold(c.extractor)
    IN  IF ~c.enabled THEN NoError
        ELSE IF c.requests <= 0 THEN "requests"
        ELSE IF c.window <= 0 THEN "window"
        ELSE IF c.burst < 0 THEN "burst"
        ELSE IF algorithm \notin AlgorithmNames THEN "algorithm"
        ELSE IF extractor \notin ExtractorNames THEN "extractor"
        ELSE IF extractor = "header" /\ c.header = "" THEN "header"
        ELSE NoError

\* Server.Load: the error it returns
ServerLoad(c) == IF c.earlierErr THEN "earlier" ELSE ValidateRateLimit(c)

\* ------------------------------------------- panic and request-id middleware
\* the request headers requestid.Middleware reads, and the handler's behaviour
ChainRequests ==
    [ correlationID : {"", "corr-1"},
      traceID       : {"", "trace-1"},
      requestID     : {"", "req-1"},
      behaviour     : {"success", "panic"} ]

\* the two nestings of TestMiddlewareOrder; server.New installs the first
PanicOutermost     == "panic -> requestid"
RequestIDOutermost == "requestid -> panic"
ChainOrders == {PanicOutermost, RequestIDOutermost}

\* generateID(): a random id
GeneratedIDs == {"gen-1", "gen-2"}
\* the id chi's middleware.RequestID makes up: host, process prefix, counter
ChiGeneratedID == "host/prefix-000001"

\* ctx.Value(CtxKey) of a context nobody saved a Context in
NoContext == [RequestID |-> "", CorrelationID |-> "", TraceID |-> ""]

\* the http.ResponseWriter before anything is written
NewResponse ==
    [ status    |-> 0,
      header    |-> [CorrelationID |-> "", RequestID |-> "", TraceID |-> "",
                     ContentType |-> ""],
      body      |-> [error |-> "", correlation_id |-> "", request_id |-> "",
                     trace_id |-> ""],
      panicking |-> FALSE ]

\* the *http.Request as the outermost handler receives it
NewRequest(req) ==
    [ header |-> [CorrelationID |-> req.correlationID, TraceID |-> req.traceID,
                  RequestID |-> req.requestID],
      reqID  |-> "",
      ctx    |-> NoContext ]

\* requestid.GetContext(ctx): the Context saved in ctx, or none
GetContext(r) == r.ctx

\* extractCorrelationID(r)
ExtractCorrelationID(r) ==
    IF r.header.CorrelationID # "" THEN r.header.CorrelationID
    ELSE IF r.header.TraceID # "" THEN r.header.TraceID
    ELSE IF r.header.RequestID # "" THEN r.header.RequestID
    ELSE ""

\* the handler under test: it answers, or it panics before it writes
AppHandler(behaviour, w, r) ==
    IF behaviour = "panic"
    THEN [w EXCEPT !.panicking = TRUE]
    ELSE [w EXCEPT !.status = 200]

\* chi's middleware.RequestID: the X-Request-Id of the request, or a new id,
\* is put in the context of the request handed on
ChiRequestID(r) ==
    [r EXCEPT !.reqID = IF r.header.RequestID # "" THEN r.header.RequestID
                        ELSE ChiGeneratedID]

\* requestid.Middleware, up to its call of next: the response headers are
\* set on w and the Context is saved in a copy of the request; the result is
\* the writer and the request handed to next (nothing is done after next)
RequestIDMiddleware(gen, w, r) ==
    LET r1            == ChiRequestID(r)
        reqID         == IF r1.reqID = "" THEN gen ELSE r1.reqID
        extracted     == ExtractCorrelationID(r1)
        correlationID == IF extracted = "" THEN gen ELSE extracted
        traceID       == r1.header.TraceID
        reqCtx        == [RequestID |-> reqID, CorrelationID |-> correlationID,
                          TraceID |-> traceID]
    IN  [ w |-> [w EXCEPT !.header.CorrelationID = correlationID,
                          !.header.RequestID = reqID,
                          !.header.TraceID = IF traceID # "" THEN traceID ELSE @],
          r |-> [r1 EXCEPT !.ctx = reqCtx] ]

\* encoding/json with omitempty: an empty string leaves the field out, so
\* the field of the body is present exactly when it is not ""
HasField(body, field) == body[field] # ""

\* panic.Middleware, from the return of next: `after` is the writer as
\* next.ServeHTTP(w, r) left it; the deferred function recovers the panic
\* and answers 500 with the Context of r, the request this middleware
\* received
PanicMiddleware(after, r) ==
    LET reqCtx == GetContext(r)
    IN  IF ~after.panicking THEN after
        ELSE [after EXCEPT
                !.panicking = FALSE,
                !.status = 500,
                !.header.ContentType = "application/json",
                !.header.CorrelationID =
                    IF reqCtx.CorrelationID # "" THEN reqCtx.CorrelationID ELSE @,
                !.header.RequestID =
                    IF reqCtx.RequestID # "" THEN reqCtx.RequestID ELSE @,
                !.header.TraceID =
                    IF reqCtx.TraceID # "" THEN reqCtx.TraceID ELSE @,
                !.body = [error          |-> "Internal server error",
                          correlation_id |-> reqCtx.CorrelationID,
                          request_id     |-> reqCtx.RequestID,
                          trace_id       |-> reqCtx.TraceID]]

\* the chain in the order given, serving one request: with the panic
\* middleware outermost it keeps the request it was given, with the
\* request-id middleware outermost it is given the copy with the Context
ServeChain(order, gen, req) ==
    LET tagged == RequestIDMiddleware(gen, NewResponse, NewRequest(req))
        after  == AppHandler(req.behaviour, tagged.w, tagged.r)
    IN  IF order = PanicOutermost
        THEN PanicMiddleware(after, NewRequest(req))
        ELSE PanicMiddleware(after, tagged.r)

\* ------------------------------------------------------------ pure functions
\* Each function is applied once to an input drawn in the initial state.
MaxWaitSeconds == 2

FnInputs ==
    [kind : {"wait"}, ticks : 0..(MaxWaitSeconds * TicksPerSecond)]
    \cup [kind : {"request"}, r : HttpRequests, config : MwSettings]
    \cup [kind : {"config"}, c : ServerConfigs]
    \cup [kind : {"chain"}, order : ChainOrders, gen : GeneratedIDs, req : ChainRequests]

FnInit ==
    /\ arg \in FnInputs
    /\ out = NoResult
    /\ cfg \in {c \in ValidConfigs : c.algorithm = TokenBucket /\ c.requests = 1
                                       /\ c.window = 1 /\ c.burst = 0}
    /\ NewLimiter
    /\ ConcIdle /\ MwIdle /\ RegistryIdle /\ PollIdle /\ LifeIdle /\ HealthIdle /\ LoaderIdle

FnIdleRest == UNCHANGED <<arg, limiterVars, concVars, mwVars, registryVars, pollVars, lifeVars, healthVars,
                           loaderVars>>

\* the Retry-After header of a denial with the wait time arg.ticks
RetryAfter ==
    /\ arg.kind = "wait" /\ out = NoResult
    /\ out' = [kind |-> "retryAfter", header |-> RetryAfterSeconds(arg.ticks)]
    /\ FnIdleRest

\* extractKey(r, config)
Extract ==
    /\ arg.kind = "request" /\ out = NoResult
    /\ out' = [kind |-> "key", key |-> ExtractKey(arg.r, arg.config)]
    /\ FnIdleRest

\* server.New: config.Load(), and log.Fatal on an error
LoadServerConfig ==
    /\ arg.kind = "config" /\ out = NoResult
    /\ LET err == ServerLoad(arg.c)
       IN  out' = [kind |-> "load", err |-> err, started |-> (err = NoError)]
    /\ FnIdleRest

\* one request served by the panic and request-id middlewares
ServeThroughChain ==
    /\ arg.kind = "chain" /\ out = NoResult
    /\ out' = [kind |-> "served", w |-> ServeChain(arg.order, arg.gen, arg.req)]
    /\ FnIdleRest

FnNext == RetryAfter \/ Extract \/ LoadServerConfig \/ ServeThroughChain

FnSpec == FnInit /\ [][FnNext]_vars

\* --------------------------------------------------- configuration registry
\* registered configurations, and calls of config.Load
MaxRegistered == 3
MaxLoads      == 2

\* Configurables: the ones named bad fail to load; nil may be registered too
ConfigNames == {"ok1", "ok2", "bad1", "bad2"}
NilConfig   == "nil"
ShouldError(name) == name \in {"bad1", "bad2"}

\* cfg.Load(): the error it returns
ErrorOf(name) == IF ShouldError(name) THEN "error of " \o name ELSE NoError

\* variant: Load goes on after an error
NeverReturns(err) == FALSE
\* if err := cfg.Load(); err != nil { return err }
ReturnsError(err) == err # NoError

\* config.Load over the list: the configurations whose Load it calls, in
\* order, and the error it returns
RECURSIVE LoadEach(_)
LoadEach(list) ==
    IF list = <<>> THEN [calls |-> <<>>, err |-> NoError]
    ELSE IF Head(list) = NilConfig THEN LoadEach(Tail(list))
    ELSE IF ReturnsError(ErrorOf(Head(list)))
         THEN [calls |-> <<Head(list)>>, err |-> ErrorOf(Head(list))]
    ELSE LET rest == LoadEach(Tail(list))
         IN  [calls |-> <<Head(list)>> \o rest.calls, err |-> rest.err]

RegistryInit ==
    /\ RegistryIdle
    /\ cfg \in {c \in ValidConfigs : c.algorithm = TokenBucket /\ c.requests = 1
                                       /\ c.window = 1 /\ c.burst = 0}
    /\ NewLimiter
    /\ ConcIdle /\ MwIdle /\ FnIdle /\ PollIdle /\ LifeIdle /\ HealthIdle /\ LoaderIdle

RegistryIdleRest == UNCHANGED <<limiterVars, concVars, mwVars, fnVars, pollVars, lifeVars, healthVars,
                                 loaderVars>>

\* config.Register(cfgs...)
Register(cfgs) ==
    /\ Len(configurations) + Len(cfgs) <= MaxRegistered
    /\ configurations' = configurations \o cfgs
    /\ UNCHANGED <<loaded, loadCalls, loadResult>>
    /\ RegistryIdleRest

\* config.Load()
Load ==
    /\ IF loadResult.kind = "none" THEN TRUE ELSE loadResult.n < MaxLoads
    /\ LET run == LoadEach(configurations)
           n   == IF loadResult.kind = "none" THEN 0 ELSE loadResult.n
       IN  /\ loadCalls' = run.calls
           /\ loaded' = loaded \cup { run.calls[j] : j \in { j \in 1..Len(run.calls) :
                                                       ErrorOf(run.calls[j]) = NoError } }
           /\ loadResult' = [kind |-> "load", err |-> run.err, n |-> n + 1]
    /\ UNCHANGED configurations
    /\ RegistryIdleRest

\* config.Reset()
RegistryReset ==
    /\ configurations # <<>>
    /\ configurations' = <<>>
    /\ UNCHANGED <<loaded, loadCalls, loadResult>>
    /\ RegistryIdleRest

RegistryNext ==
    \/ \E cfgs \in UNION { [1..m -> ConfigNames \cup {NilConfig}] : m \in 1..2 } :
          Register(cfgs)
    \/ Load
    \/ RegistryReset

RegistrySpec == RegistryInit /\ [][RegistryNext]_vars

\* ---------------------------------------------------------- a polling caller
\* One caller polls one key of a token bucket, at the instants it likes.
PollMaxTime == 6
PolledKey == "A"

PollInit ==
    /\ cfg \in {c \in ValidConfigs : c.algorithm = TokenBucket}
    /\ NewLimiter
    /\ poll = NoResult
    /\ ConcIdle /\ MwIdle /\ FnIdle /\ RegistryIdle /\ LifeIdle /\ HealthIdle /\ LoaderIdle

PollIdleRest ==
    UNCHANGED <<cfg, slidingWindows, fixedWindows, admitted, newborn, wasReset, last,
                concVars, mwVars, fnVars, registryVars, lifeVars, healthVars, loaderVars>>

\* limiter.Allow(PolledKey); the history keeps the instant and the token
\* count of the first denial of a run of denials, and the number of polls
\* denied at later instants
Poll ==
    LET step    == TokenBucketStep(buckets, PolledKey, now, TicksPerMs)
        running == poll.kind = "denied"
    IN  /\ buckets' = Put(buckets, PolledKey, step.entry)
        /\ poll' = IF step.ok
                   THEN IF running THEN [poll EXCEPT !.kind = "allowed"] ELSE NoResult
                   ELSE IF running
                        THEN [poll EXCEPT !.later = IF now > poll.latest THEN 1 ELSE @,
                                          !.latest = now]
                        ELSE [kind |-> "denied", since |-> now, tokens |-> step.entry.tokens,
                              later |-> 0, latest |-> now]
        /\ UNCHANGED now
        /\ PollIdleRest

\* time passes
PollTick ==
    /\ now < PollMaxTime
    /\ now' = now + 1
    /\ UNCHANGED <<buckets, poll>>
    /\ PollIdleRest

PollNext == Poll \/ PollTick

\* the clock runs and the caller keeps polling
PollSpec == PollInit /\ [][PollNext]_vars /\ WF_vars(PollTick) /\ WF_vars(Poll)

\* ----------------------------------------------------------- server lifecycle
\* server.New().WithAPIs(...).Run(ctx): the goroutine of Run, the goroutine
\* that serves, the shutdown signal and the requests in flight.
MaxApis     == 3
MaxInflight == 1

\* the APIs of the README example, and one whose Start fails; db, worker and
\* cache implement LifecycleAPI, worker's Stop returns an error
ApiPool == {"db", "worker", "cache", "api"}
IsLifecycle(name) == name # "api"
StartError(name)  == name = "cache"
StopError(name)   == name = "worker"

\* variant: startAPIs goes on after an error
StartNeverAborts(name) == FALSE
\* if err := lifecycleAPI.Start(ctx); err != nil { return ... }
StartAborts(name) == StartError(name)

\* sequences of distinct APIs
ApiLists ==
    { list \in UNION { [1..m -> ApiPool] : m \in 0..MaxApis } :
        \A j, h \in 1..Len(list) : j # h => list[j] # list[h] }

Accepting == runState.listener = "listening"

\* an event of the history, with the listener and the requests in flight
\* at the time
Event(ev, api) ==
    [ev |-> ev, api |-> api, accepting |-> Accepting, inflight |-> runState.inflight,
     ctx |-> runState.shutdownCtx]

\* variant: the hooks are handed a context of their own
FreshContext(shutdownCtx) == "running"
\* a.stopAPIs(shutdownCtx): the context the Stop hooks receive
StopContext(shutdownCtx) == shutdownCtx

LifeInit ==
    /\ app = [kind |-> "server", apis |-> <<>>, isHTTPListener |-> TRUE]
    /\ runState = [kind |-> "run", pc |-> "new", idx |-> 0, cancelled |-> FALSE,
                   listener |-> "none", shut |-> FALSE, inflight |-> 0,
                   logged |-> {}, shutdownCtx |-> "none"]
    /\ trace = <<>>
    /\ cfg \in {c \in ValidConfigs : c.algorithm = TokenBucket /\ c.requests = 1
                                       /\ c.window = 1 /\ c.burst = 0}
    /\ NewLimiter
    /\ ConcIdle /\ MwIdle /\ FnIdle /\ RegistryIdle /\ PollIdle /\ HealthIdle /\ LoaderIdle

LifeIdleRest ==
    UNCHANGED <<limiterVars, concVars, mwVars, fnVars, registryVars, pollVars,
                healthVars, loaderVars>>

\* server.WithAPIs(apis...)
WithAPIs(list) ==
    /\ runState.pc = "new"
    /\ list # <<>>
    /\ app.apis \o list \in ApiLists
    /\ app' = [app EXCEPT !.apis = @ \o list]
    /\ UNCHANGED <<runState, trace>>
    /\ LifeIdleRest

\* server.WithListener(l)
WithListener ==
    /\ runState.pc = "new"
    /\ app.isHTTPListener
    /\ app' = [app EXCEPT !.isHTTPListener = FALSE]
    /\ UNCHANGED <<runState, trace>>
    /\ LifeIdleRest

\* Run: createShutdownContext, then startAPIs
Run ==
    /\ runState.pc = "new"
    /\ runState' = [runState EXCEPT !.pc = "startAPIs", !.idx = 1]
    /\ UNCHANGED <<app, trace>>
    /\ LifeIdleRest

\* SIGINT, SIGTERM or the parent context is cancelled: ctx is cancelled
Signal ==
    /\ runState.pc \notin {"new", "returned", "fatal"}
    /\ ~runState.cancelled
    /\ runState' = [runState EXCEPT !.cancelled = TRUE]
    /\ trace' = Append(trace, Event("signal", ""))
    /\ UNCHANGED app
    /\ LifeIdleRest

\* startAPIs: one turn of the loop; an error ends the process (log.Fatal)
StartAPI ==
    /\ runState.pc = "startAPIs"
    /\ runState.idx <= Len(app.apis)
    /\ LET api == app.apis[runState.idx] IN
       IF IsLifecycle(api)
       THEN /\ trace' = Append(trace, Event("start", api))
            /\ runState' = IF StartAborts(api)
                           THEN [runState EXCEPT !.pc = "fatal"]
                           ELSE [runState EXCEPT !.idx = @ + 1]
       ELSE /\ runState' = [runState EXCEPT !.idx = @ + 1]
            /\ UNCHANGED trace
    /\ UNCHANGED app
    /\ LifeIdleRest

\* Run: createHTTPServer and `go func() { a.serveWithServer(srv) }()`
Spawn ==
    /\ runState.pc = "startAPIs"
    /\ runState.idx > Len(app.apis)
    /\ runState' = [runState EXCEPT !.pc = "select", !.listener = "spawned"]
    /\ UNCHANGED <<app, trace>>
    /\ LifeIdleRest

\* serveWithServer: srv.ListenAndServe(), which refuses after Shutdown, or
\* the custom a.serve(addr, router), which knows nothing of srv
Listen ==
    /\ runState.pc # "fatal"
    /\ runState.listener = "spawned"
    /\ IF app.isHTTPListener /\ runState.shut
       THEN /\ runState' = [runState EXCEPT !.listener = "closed"]
            /\ UNCHANGED trace
       ELSE /\ runState' = [runState EXCEPT !.listener = "listening"]
            /\ trace' = Append(trace, Event("listening", ""))
    /\ UNCHANGED app
    /\ LifeIdleRest

\* serveWithServer returns an error other than ErrServerClosed
ListenFails ==
    /\ runState.pc # "fatal"
    /\ runState.listener = "spawned"
    /\ ~runState.shut
    /\ runState' = [runState EXCEPT !.listener = "failed"]
    /\ UNCHANGED <<app, trace>>
    /\ LifeIdleRest

\* Run: case err := <-serverErr: log.Fatal
ServerFailed ==
    /\ runState.pc = "select"
    /\ runState.listener = "failed"
    /\ runState' = [runState EXCEPT !.pc = "fatal"]
    /\ UNCHANGED <<app, trace>>
    /\ LifeIdleRest

\* the listener accepts a request
Accept ==
    /\ runState.pc # "fatal"
    /\ Accepting
    /\ runState.inflight < MaxInflight
    /\ runState' = [runState EXCEPT !.inflight = @ + 1]
    /\ UNCHANGED <<app, trace>>
    /\ LifeIdleRest

\* a request in flight is answered
Finish ==
    /\ runState.pc # "fatal"
    /\ runState.inflight > 0
    /\ runState' = [runState EXCEPT !.inflight = @ - 1]
    /\ UNCHANGED <<app, trace>>
    /\ LifeIdleRest

\* Run: case <-ctx.Done(); gracefulShutdown creates shutdownCtx, whose
\* timeout starts, and calls srv.Shutdown, which closes the listener of srv
BeginShutdown ==
    /\ runState.pc = "select"
    /\ runState.cancelled
    /\ runState' = [runState EXCEPT
                      !.pc = "shutdown", !.shut = TRUE, !.shutdownCtx = "running",
                      !.listener = IF app.isHTTPListener /\ @ = "listening"
                                   THEN "closed" ELSE @]
    /\ trace' = Append(trace, Event("shutdown", ""))
    /\ UNCHANGED app
    /\ LifeIdleRest

\* srv.Shutdown returns nil: srv has no connection in flight (it never has
\* one when a custom listener serves)
Drained ==
    /\ runState.pc = "shutdown"
    /\ app.isHTTPListener => runState.inflight = 0
    /\ runState' = [runState EXCEPT !.pc = "stopAPIs", !.idx = 1]
    /\ trace' = Append(trace, Event("drained", ""))
    /\ UNCHANGED app
    /\ LifeIdleRest

\* srv.Shutdown returns the timeout of shutdownCtx; srv.Close() drops the
\* connections
TimedOut ==
    /\ runState.pc = "shutdown"
    /\ app.isHTTPListener
    /\ runState.inflight > 0
    /\ runState' = [runState EXCEPT !.pc = "stopAPIs", !.idx = 1, !.inflight = 0,
                                    !.shutdownCtx = "expired"]
    /\ trace' = Append(trace, Event("forced", ""))
    /\ UNCHANGED app
    /\ LifeIdleRest

\* stopAPIs: one turn of the loop; an error is logged and the loop goes on
StopAPI ==
    /\ runState.pc = "stopAPIs"
    /\ runState.idx <= Len(app.apis)
    /\ LET api == app.apis[runState.idx] IN
       IF IsLifecycle(api)
       THEN /\ trace' = Append(trace, [Event("stop", api) EXCEPT
                                          !.ctx = StopContext(runState.shutdownCtx)])
            /\ runState' = [runState EXCEPT
                              !.idx = @ + 1,
                              !.logged = IF StopError(api) THEN @ \cup {api} ELSE @]
       ELSE /\ runState' = [runState EXCEPT !.idx = @ + 1]
            /\ UNCHANGED trace
    /\ UNCHANGED app
    /\ LifeIdleRest

\* the timeout of shutdownCtx runs out while the Stop hooks run
DeadlinePasses ==
    /\ runState.pc = "stopAPIs"
    /\ runState.shutdownCtx = "running"
    /\ runState' = [runState EXCEPT !.shutdownCtx = "expired"]
    /\ UNCHANGED <<app, trace>>
    /\ LifeIdleRest

\* gracefulShutdown and Run return
Return ==
    /\ runState.pc = "stopAPIs"
    /\ runState.idx > Len(app.apis)
    /\ runState' = [runState EXCEPT !.pc = "returned"]
    /\ trace' = Append(trace, Event("returned", ""))
    /\ UNCHANGED app
    /\ LifeIdleRest

LifeNext ==
    \/ \E list \in ApiLists : WithAPIs(list)
    \/ WithListener
    \/ Run
    \/ Signal
    \/ StartAPI
    \/ Spawn
    \/ Listen
    \/ ListenFails
    \/ ServerFailed
    \/ Accept
    \/ Finish
    \/ BeginShutdown
    \/ Drained
    \/ TimedOut
    \/ StopAPI
    \/ DeadlinePasses
    \/ Return

LifeSpec == LifeInit /\ [][LifeNext]_vars

\* ------------------------------------------------------------------ healthz
\* healthz.Register, checker.Run with one goroutine per check, and the
\* /healthz endpoint that calls Run.
MaxRegistrations == 3
MaxRuns          == 2

CheckNames == {"check1", "check2"}

\* a check is the error it returns: nil, or errors.New("<name> failed")
CheckError(name) == name \o " failed"
CheckResults(name) == {NoError, CheckError(name)}

\* variant: no error is ever sent
CheckNeverFailed(err) == FALSE
\* if err := check(); err != nil { errCh <- err }
CheckFailed(err) == err # NoError

\* errors.Join(errHistory...): nil when there is no error, else an error
\* that wraps them all
JoinErrors(errHistory) ==
    IF errHistory = <<>>
    THEN [kind |-> "nil", errs |-> <<>>]
    ELSE [kind |-> "error", errs |-> errHistory]

\* the answer of the endpoint to the result of Run
EndpointStatus(result) == IF result.kind # "nil" THEN 503 ELSE 200

HealthInit ==
    /\ health = [kind          |-> "healthz",
                 checks        |-> EmptyMap,
                 pc            |-> "idle",
                 atStart       |-> EmptyMap,
                 visited       |-> {},
                 late          |-> {},
                 cap           |-> 0,
                 wg            |-> 0,
                 running       |-> {},
                 calls         |-> [n \in CheckNames |-> 0],
                 errCh         |-> <<>>,
                 result        |-> NoResult,
                 status        |-> 0,
                 raced         |-> FALSE,
                 registrations |-> 0,
                 runs          |-> 0]
    /\ cfg \in {c \in ValidConfigs : c.algorithm = TokenBucket /\ c.requests = 1
                                       /\ c.window = 1 /\ c.burst = 0}
    /\ NewLimiter
    /\ ConcIdle /\ MwIdle /\ FnIdle /\ RegistryIdle /\ PollIdle /\ LifeIdle /\ LoaderIdle

HealthIdleRest ==
    UNCHANGED <<limiterVars, concVars, mwVars, fnVars, registryVars, pollVars, lifeVars,
                loaderVars>>

\* healthz.Register(name, fn): the map is written under the lock. Run holds
\* the lock only while it copies the map reference, so a Register during the
\* range of Run writes the map Run is iterating: the runtime either stops
\* the process (concurrent map iteration and map write) or the range goes
\* on and may or may not produce the new entry.
HealthzRegister(name, err, fatal) ==
    /\ health.pc # "fatal"
    /\ health.registrations < MaxRegistrations
    /\ IF health.pc = "range"
       THEN health' = IF fatal
                      THEN [health EXCEPT !.pc = "fatal", !.raced = TRUE,
                                          !.registrations = @ + 1]
                      ELSE [health EXCEPT !.checks = Put(@, name, err),
                                          !.late = @ \cup {name},
                                          !.raced = TRUE,
                                          !.registrations = @ + 1]
       ELSE /\ ~fatal
            /\ health' = [health EXCEPT !.checks = Put(@, name, err),
                                        !.registrations = @ + 1]
    /\ HealthIdleRest

\* checker.Run: checks := x.checks under the lock; make(chan error, len(checks))
CheckerRun ==
    /\ health.pc = "idle"
    /\ health.runs < MaxRuns
    /\ health' = [health EXCEPT
                    !.pc = "range", !.runs = @ + 1,
                    !.atStart = health.checks,
                    !.visited = {}, !.late = {},
                    !.cap = Cardinality(DOMAIN health.checks),
                    !.calls = [n \in CheckNames |-> 0],
                    !.errCh = <<>>, !.result = NoResult, !.status = 0,
                    !.raced = FALSE]
    /\ HealthIdleRest

\* for _, check := range checks { wg.Add(1); go func(check) {...}(check) }
RangeCheck(name) ==
    /\ health.pc = "range"
    /\ name \in DOMAIN health.checks
    /\ name \notin health.visited
    /\ health' = [health EXCEPT
                    !.visited = @ \cup {name},
                    !.wg = @ + 1,
                    !.running = @ \cup {[name |-> name, err |-> health.checks[name],
                                         called |-> FALSE]}]
    /\ HealthIdleRest

\* the range is over: every entry was produced, except perhaps entries
\* written while it ran
RangeEnds ==
    /\ health.pc = "range"
    /\ (DOMAIN health.checks \ health.visited) \subseteq health.late
    /\ health' = [health EXCEPT !.pc = "wait"]
    /\ HealthIdleRest

\* a goroutine calls its check; with a nil error it is done
CallCheck(name) ==
    \E g \in health.running :
    /\ health.pc \in {"range", "wait"}
    /\ g.name = name
    /\ ~g.called
    /\ health' = IF CheckFailed(g.err)
                 THEN [health EXCEPT
                         !.calls[g.name] = @ + 1,
                         !.running = (@ \ {g}) \cup {[g EXCEPT !.called = TRUE]}]
                 ELSE [health EXCEPT
                         !.calls[g.name] = @ + 1,
                         !.running = @ \ {g},
                         !.wg = @ - 1]
    /\ HealthIdleRest

\* errCh <- err, which blocks while the channel is full; then wg.Done()
SendError(name) ==
    \E g \in health.running :
    /\ health.pc \in {"range", "wait"}
    /\ g.name = name
    /\ g.called
    /\ Len(health.errCh) < health.cap
    /\ health' = [health EXCEPT
                    !.errCh = Append(@, g.err),
                    !.running = @ \ {g},
                    !.wg = @ - 1]
    /\ HealthIdleRest

\* wg.Wait(); close(errCh); the errors are collected and joined
RunReturns ==
    /\ health.pc = "wait"
    /\ health.wg = 0
    /\ health' = [health EXCEPT !.pc = "done", !.result = JoinErrors(health.errCh)]
    /\ HealthIdleRest

\* Endpoint: 503 with the error of Run, else 200
EndpointReplies ==
    /\ health.pc = "done"
    /\ health' = [health EXCEPT !.pc = "idle", !.status = EndpointStatus(health.result)]
    /\ HealthIdleRest

HealthNext ==
    \/ \E name \in CheckNames : \E err \in CheckResults(name) : \E fatal \in BOOLEAN :
          HealthzRegister(name, err, fatal)
    \/ CheckerRun
    \/ \E name \in CheckNames : RangeCheck(name)
    \/ RangeEnds
    \/ \E name \in CheckNames : CallCheck(name)
    \/ \E name \in CheckNames : SendError(name)
    \/ RunReturns
    \/ EndpointReplies

HealthSpec == HealthInit /\ [][HealthNext]_vars

\* ------------------------------------ config: Load beside Register and Reset
\* One goroutine calls Register and Reset, another calls Load. The variable
\* `configurations` is a slice header of three words (data, len, cap) over a
\* backing array; Register and Reset write it with the mutex held, Load
\* reads it without the mutex.
MaxWrites == 4

HeaderWords == {"data", "len", "cap"}
RacedNames  == {"ok1", "bad1"}

\* append: the capacity of the array a full slice moves to
GrownCap(cap, needed) == IF needed > 2 * cap THEN needed ELSE 2 * cap

\* of the backing array of a header: whether slot j lies inside it, and the
\* element the range reads there (slots count from 1)
InArray(arrays, header, j) == j <= Len(arrays[header.data])
Slot(arrays, header, j) == arrays[header.data][j]

LoaderInit ==
    /\ registry = [kind      |-> "config",
                   mu        |-> "free",
                   slice     |-> [data |-> 1, len |-> 0, cap |-> 0],
                   arrays    |-> << <<>> >>,
                   writer    |-> [pc |-> "idle", call |-> "none", c |-> NilConfig,
                                  next |-> [data |-> 1, len |-> 0, cap |-> 0],
                                  pending |-> {}],
                   writes    |-> 0,
                   published |-> {[data |-> 1, len |-> 0, cap |-> 0]},
                   loader    |-> [pc |-> "idle", seen |-> [data |-> 1, len |-> 0, cap |-> 0],
                                  i |-> 0, calls |-> <<>>, err |-> NoError],
                   loads     |-> 0]
    /\ cfg \in {c \in ValidConfigs : c.algorithm = TokenBucket /\ c.requests = 1
                                       /\ c.window = 1 /\ c.burst = 0}
    /\ NewLimiter
    /\ ConcIdle /\ MwIdle /\ FnIdle /\ RegistryIdle /\ PollIdle /\ LifeIdle /\ HealthIdle

LoaderIdleRest ==
    UNCHANGED <<limiterVars, concVars, mwVars, fnVars, registryVars, pollVars, lifeVars,
                healthVars>>

\* Register(c): mu.Lock()
RegisterLocks(c) ==
    /\ registry.writer.pc = "idle" /\ registry.mu = "free"
    /\ registry.writes < MaxWrites
    /\ registry' = [registry EXCEPT !.mu = "writer", !.writer.pc = "locked",
                                    !.writer.call = "register", !.writer.c = c]
    /\ LoaderIdleRest

\* Reset(): mu.Lock()
ResetLocks ==
    /\ registry.writer.pc = "idle" /\ registry.mu = "free"
    /\ registry.writes < MaxWrites
    /\ registry' = [registry EXCEPT !.mu = "writer", !.writer.pc = "locked",
                                    !.writer.call = "reset", !.writer.c = NilConfig]
    /\ LoaderIdleRest

\* append(configurations, c): in place when the array has room, else into a
\* larger array the elements are copied to; the result is not yet stored
Appends ==
    /\ registry.writer.pc = "locked" /\ registry.writer.call = "register"
    /\ LET h == registry.slice
           c == registry.writer.c
       IN  IF h.len + 1 <= h.cap
           THEN registry' = [registry EXCEPT
                    !.arrays[h.data] = [@ EXCEPT ![h.len + 1] = c],
                    !.writer.next = [h EXCEPT !.len = @ + 1],
                    !.writer.pending = HeaderWords,
                    !.writer.pc = "store"]
           ELSE LET cap   == GrownCap(h.cap, h.len + 1)
                    old   == registry.arrays[h.data]
                    array == [j \in 1..cap |-> IF j <= h.len THEN old[j]
                                              ELSE IF j = h.len + 1 THEN c
                                              ELSE NilConfig]
                IN  registry' = [registry EXCEPT
                        !.arrays = Append(@, array),
                        !.writer.next = [data |-> Len(registry.arrays) + 1,
                                         len |-> h.len + 1, cap |-> cap],
                        !.writer.pending = HeaderWords,
                        !.writer.pc = "store"]
    /\ LoaderIdleRest

\* make([]Configurable, 0): the result is not yet stored
Makes ==
    /\ registry.writer.pc = "locked" /\ registry.writer.call = "reset"
    /\ registry' = [registry EXCEPT
            !.arrays = Append(@, <<>>),
            !.writer.next = [data |-> Len(registry.arrays) + 1, len |-> 0, cap |-> 0],
            !.writer.pending = HeaderWords,
            !.writer.pc = "store"]
    /\ LoaderIdleRest

\* configurations = ...: the three words of the header are stored one at a
\* time, in an order the build chooses
StoreWord(f) ==
    /\ registry.writer.pc = "store" /\ f \in registry.writer.pending
    /\ registry' = [registry EXCEPT !.slice[f] = registry.writer.next[f],
                                    !.writer.pending = @ \ {f}]
    /\ LoaderIdleRest

\* mu.Unlock(): the call returns
Unlocks ==
    /\ registry.writer.pc = "store" /\ registry.writer.pending = {}
    /\ registry' = [registry EXCEPT !.mu = "free", !.writer.pc = "idle",
                                    !.published = @ \cup {registry.slice},
                                    !.writes = @ + 1]
    /\ LoaderIdleRest

\* Load: `range configurations` copies the header once; no lock is taken
LoadRanges ==
    /\ registry.loader.pc \in {"idle", "returned"}
    /\ registry.loads < MaxLoads
    /\ registry' = [registry EXCEPT !.loader = [pc |-> "range", seen |-> registry.slice,
                                                i |-> 0, calls |-> <<>>, err |-> NoError],
                                    !.loads = @ + 1]
    /\ LoaderIdleRest

\* one turn of the loop over the copied header. A slot outside the array
\* the header points to is memory of something else: it is read as nil, or
\* the call through it faults.
LoadVisits(faults) ==
    /\ registry.loader.pc = "range"
    /\ registry.loader.i < registry.loader.seen.len
    /\ LET j == registry.loader.i + 1
           h == registry.loader.seen
       IN  IF ~InArray(registry.arrays, h, j)
           THEN registry' = IF faults
                            THEN [registry EXCEPT !.loader.pc = "fault"]
                            ELSE [registry EXCEPT !.loader.i = j]
           ELSE /\ ~faults
                /\ LET c == Slot(registry.arrays, h, j)
                   IN  IF c = NilConfig
                       THEN registry' = [registry EXCEPT !.loader.i = j]
                       ELSE IF ReturnsError(ErrorOf(c))
                       THEN registry' = [registry EXCEPT
                                !.loader.calls = Append(@, c),
                                !.loader.err = ErrorOf(c),
                                !.loader.pc = "returned"]
                       ELSE registry' = [registry EXCEPT
                                !.loader.calls = Append(@, c),
                                !.loader.i = j]
    /\ LoaderIdleRest

\* return nil
LoadReturnsNil ==
    /\ registry.loader.pc = "range"
    /\ registry.loader.i = registry.loader.seen.len
    /\ registry' = [registry EXCEPT !.loader.pc = "returned"]
    /\ LoaderIdleRest

LoaderNext ==
    \/ \E c \in RacedNames : RegisterLocks(c)
    \/ ResetLocks
    \/ Appends
    \/ Makes
    \/ \E f \in HeaderWords : StoreWord(f)
    \/ Unlocks
    \/ LoadRanges
    \/ \E faults \in BOOLEAN : LoadVisits(faults)
    \/ LoadReturnsNil

LoaderSpec == LoaderInit /\ [][LoaderNext]_vars

\* --------------------------------------------------------------- vocabulary
\* the number of calls a limiter allows a full key at one instant
Quota ==
    IF cfg.algorithm = TokenBucket
    THEN (IF cfg.burst > 0 THEN cfg.burst ELSE cfg.requests)
    ELSE cfg.requests

\* allowed calls of the key in the trailing window (now - window, now]
InTrailingWindow(k) == Len(SelectSeq(admitted[k], LAMBDA t : t > now - cfg.window))

\* allowed calls of the key in the closed interval [now - window, now]
InClosedInterval(k) == Len(admitted[k])

\* Of a key whose state was created at this clock reading: exactly n calls
\* are allowed, the first n, and every further one is denied.
AllowsExactly(k, n) ==
    /\ Len(admitted[k]) <= n
    /\ ~last[k].allowed => Len(admitted[k]) = n

\* the stored state of a key, <<>> when the limiter has none
KeyState(k) ==
    << IF k \in DOMAIN buckets THEN <<buckets[k]>> ELSE <<>>,
       IF k \in DOMAIN slidingWindows THEN <<slidingWindows[k]>> ELSE <<>>,
       IF k \in DOMAIN fixedWindows THEN <<fixedWindows[k]>> ELSE <<>> >>

Stored == DOMAIN buckets \cup DOMAIN slidingWindows \cup DOMAIN fixedWindows

\* what Allow(k) returns when it is called in this state
AllowOutcome(k) ==
    CASE cfg.algorithm = TokenBucket   -> TokenBucketStep(buckets, k, now, TicksPerMs)
      [] cfg.algorithm = SlidingWindow -> SlidingWindowStep(slidingWindows, k, now)
      [] cfg.algorithm = FixedWindow   -> FixedWindowStep(fixedWindows, k, now)

\* ------------------------------------------------------------------- claims

\* C1 (as stated): for each of the three limiters, for the token bucket under
\* every Burst >= 0, a key never seen before gets, with no time elapsing,
\* its first Requests calls allowed and the next one denied.
C1_Original == \A k \in newborn : AllowsExactly(k, cfg.requests)

\* C1 (amended): the same for the sliding window, the fixed window, and the
\* token bucket when Burst = 0 or Burst = Requests.
C1_Amended ==
    \A k \in newborn :
        (cfg.algorithm = TokenBucket => cfg.burst \in {0, cfg.requests})
            => AllowsExactly(k, cfg.requests)

C1_Witness ==
    \E k \in newborn :
        /\ cfg.requests = MaxRequests
        /\ ~last[k].allowed
        /\ Len(admitted[k]) = cfg.requests

\* C2: token bucket with Requests = N per Window = W: the number of calls
\* allowed for one key in any interval of length W never exceeds N (checked
\* on the half-open interval (now - W, now] that ends at each clock reading).
C2_Claim ==
    cfg.algorithm = TokenBucket =>
        \A k \in DOMAIN admitted : InTrailingWindow(k) <= cfg.requests

\* C3: sliding window: for every key, the number of allowed calls in any
\* trailing window (now - W, now] never exceeds Requests.
C3_TrailingWindow ==
    cfg.algorithm = SlidingWindow =>
        \A k \in DOMAIN admitted : InTrailingWindow(k) <= cfg.requests

C3_Witness ==
    /\ cfg.algorithm = SlidingWindow
    /\ \E k \in DOMAIN admitted :
        /\ InTrailingWindow(k) = cfg.requests
        /\ ~last[k].allowed
        /\ admitted[k][1] < now
        /\ cfg.requests = MaxRequests

\* C4: fixed window: for every key, the number of allowed calls in any
\* interval of length W (checked on the closed interval [now - W, now]) is
\* at most 2 * Requests.
C4_TwiceRequests ==
    cfg.algorithm = FixedWindow =>
        \A k \in DOMAIN admitted : InClosedInterval(k) <= 2 * cfg.requests

C4_Witness ==
    /\ cfg.algorithm = FixedWindow
    /\ cfg.requests = MaxRequests
    /\ \E k \in DOMAIN admitted :
        /\ InClosedInterval(k) = 2 * cfg.requests
        /\ ~last[k].allowed

\* C5: token bucket: capacity is Burst when Burst > 0 and Requests otherwise;
\* a key never seen before gets, with no time elapsing, exactly capacity
\* calls allowed and every further call denied.
C5_Capacity ==
    cfg.algorithm = TokenBucket =>
        \A k \in newborn :
            AllowsExactly(k, IF cfg.burst > 0 THEN cfg.burst ELSE cfg.requests)

C5_Witness ==
    /\ cfg.algorithm = TokenBucket
    /\ cfg.burst > cfg.requests
    /\ \E k \in newborn : ~last[k].allowed /\ Len(admitted[k]) = cfg.burst

\* C6: token bucket: when Allow(key) returned (false, waitTime) and the next
\* Allow(key) comes at least waitTime later (exactly waitTime included), with
\* no other call for the key in between, that call is allowed.
C6_Claim ==
    cfg.algorithm = TokenBucket =>
        \A k \in DOMAIN last :
            last[k].retry \in {"exact", "late"} => last[k].allowed

\* C7: sliding window: a denial returns waitTime = window - (now - oldest
\* retained timestamp), that is the wait ends at oldest + window; the next
\* Allow(key), when it comes at least waitTime later (exactly waitTime
\* included) with no other call for the key in between, is allowed.
C7_SlidingRetry ==
    cfg.algorithm = SlidingWindow =>
        \A k \in DOMAIN last :
            /\ ~last[k].allowed =>
                   last[k].readyAt = slidingWindows[k][1] + cfg.window
            /\ last[k].retry \in {"exact", "late"} => last[k].allowed

C7_Witness ==
    /\ cfg.algorithm = SlidingWindow
    /\ \E k \in DOMAIN last : last[k].retry = "exact" /\ last[k].allowed

\* C8 (as stated): fixed window: the reset by the first Allow after the
\* boundary windowStart + W can occur when fewer than W has elapsed since the
\* very first request of the window it closes: under fair scheduling such a
\* reset eventually occurs.
C8_Original ==
    cfg.algorithm = FixedWindow => <>(\E k \in DOMAIN last : last[k].rolledEarly)

\* C8 (amended): fixed window: an Allow(key) at or after the boundary
\* windowStart + W resets the count and is allowed, and calls are then allowed
\* until Requests of them are counted in the new window; a reset occurs only
\* when at least W has elapsed since the first request of the window it closes.
C8_Amended ==
    [][ \A k \in DOMAIN fixedWindows :
            FixedWindowAllow(k) =>
                /\ now >= fixedWindows[k].windowStart + cfg.window
                       => /\ fixedWindows'[k] = [count |-> 1, windowStart |-> now]
                          /\ last'[k].allowed
                          /\ last'[k].rolled
                /\ ~last'[k].allowed => fixedWindows[k].count = cfg.requests
                /\ last'[k].rolled
                       => /\ now - last[k].first >= cfg.window
                          /\ ~last'[k].rolledEarly
      ]_vars

C8_Witness ==
    /\ cfg.algorithm = FixedWindow
    /\ cfg.requests = MaxRequests
    /\ \E k \in DOMAIN last :
        /\ k \notin newborn
        /\ ~last[k].allowed
        /\ last[k].first = now
        /\ fixedWindows[k].count = cfg.requests
        /\ InClosedInterval(k) > cfg.requests

\* C9: for all three limiters, Reset(key) leaves the limiter without state
\* for the key, whatever the state was, so the key is a key never seen
\* before: its next Allow is allowed and, with no time elapsing, exactly the
\* full capacity of calls is allowed before the first denial; Reset of a key
\* without state changes nothing (so Reset is idempotent).
C9_ResetRestores ==
    [][ /\ \A k \in Keys :
              Reset(k) =>
                  /\ k \notin Stored'
                  /\ k \notin Stored => KeyState(k)' = KeyState(k)
                  /\ \A j \in Keys : j \notin Stored => j \notin Stored'
        /\ \A k \in (newborn' \cap wasReset') :
              /\ last'[k].fresh => last'[k].allowed
              /\ AllowsExactly(k, Quota)'
      ]_vars

C9_Witness ==
    \E k \in newborn \cap wasReset :
        /\ ~last[k].allowed
        /\ Len(admitted[k]) = Quota
        /\ Quota > 1
        /\ now > 0

\* C10: keys never interfere: an Allow or Reset on one key leaves the stored
\* state of every other key unchanged, and the first call for a key is
\* allowed whatever was denied to other keys.
C10_KeysIndependent ==
    [][ /\ \A j \in Keys :
              (Allow(j) \/ Reset(j)) =>
                  \A k \in Keys \ {j} : KeyState(k)' = KeyState(k)
        /\ \A k \in DOMAIN last' : last'[k].fresh => last'[k].allowed
      ]_vars

\* key a was denied at an earlier clock reading and has not refilled a token
\* since; key b is then seen for the first time and allowed.
C10_Witness ==
    /\ cfg.algorithm = TokenBucket
    /\ \E a \in DOMAIN last : \E b \in newborn \ {a} :
        /\ ~last[a].allowed
        /\ buckets[a].lastSeen < now
        /\ buckets[a].tokens + (now - buckets[a].lastSeen) * cfg.requests < One
        /\ last[b].fresh
        /\ last[b].allowed

\* C16: for all three limiters (Requests >= 1, Window > 0), in every state a
\* run of calls reaches, an Allow that allows returns wait time 0 and an
\* Allow that denies returns a strictly positive wait time, which for the
\* sliding and the fixed window is at most Window.
C16_WaitTimes ==
    \A k \in Keys :
        LET o == AllowOutcome(k) IN
        /\ o.ok => o.wait = 0
        /\ ~o.ok => /\ o.wait > 0
                    /\ cfg.algorithm # TokenBucket => o.wait <= cfg.window

\* a denial with a wait of a whole window (made at the instant of the key's
\* first allowed call), and a token bucket denial whose wait is the 1ms floor
C16_Witness ==
    \/ /\ cfg.algorithm # TokenBucket
       /\ \E k \in newborn :
              ~last[k].allowed /\ last[k].readyAt = now + cfg.window
    \/ /\ cfg.algorithm = TokenBucket
       /\ \E k \in DOMAIN last :
              /\ ~last[k].allowed
              /\ buckets[k].lastSeen = now
              /\ One - buckets[k].tokens < cfg.requests * TicksPerMs
              /\ last[k].readyAt = now + TicksPerMs


\* --------------------------------------------------- claims, concurrent use
InCriticalSection(c) == pc[c] \in {"read", "write", "unlock"}

Finished == \A c \in Callers : pc[c] = "done"

\* C11: when each key receives no more Allow calls than its capacity N from
\* parallel callers (and no Reset), no call is denied, no key is allowed more
\* than N times, and once all calls returned every one of them was allowed.
C11_AllWithinCapacityAllowed ==
    \A k \in Keys :
        (~tally[k].reset /\ Quota = cfg.requests /\ tally[k].started <= cfg.requests)
        => /\ tally[k].denied = 0
           /\ tally[k].allowed <= cfg.requests
           /\ Finished => tally[k].allowed = tally[k].started

C11_Witness ==
    /\ Finished
    /\ contended
    /\ Quota = cfg.requests
    /\ \A k \in Keys : ~tally[k].reset /\ tally[k].started >= 1
    /\ \E k \in Keys : tally[k].started = cfg.requests /\ tally[k].allowed = 2

\* C12: the mutex serializes the calls: at most one caller is between Lock
\* and Unlock, what a caller read is still the key's entry when it writes,
\* and of the calls on one key that all read the same instant (no Reset)
\* exactly min(calls, capacity) are allowed.
C12_Serialized ==
    /\ \A c, d \in Callers : InCriticalSection(c) /\ InCriticalSection(d) => c = d
    /\ \A c \in Callers : InCriticalSection(c) => mu = c
    /\ \A c \in Callers :
          (pc[c] = "write" /\ call[c].kind = "allow")
          => snap[c].t <= now /\ snap[c].m = Entry(TheMap, call[c].key)
    /\ \A k \in Keys :
          (~tally[k].reset /\ tally[k].instant)
          => tally[k].allowed = Min(tally[k].allowed + tally[k].denied, Quota)

C12_Witness ==
    /\ contended
    /\ \E k \in Keys :
          /\ ~tally[k].reset /\ tally[k].instant
          /\ tally[k].started = 3
          /\ tally[k].denied = 1
          /\ tally[k].allowed = 2


\* ------------------------------------------------------- claims, middleware
Responded == resp.kind = "response"

\* C13: with rate limiting enabled the handler runs for a request exactly
\* when the limiter allows the request's key in the state the request
\* arrives in: allowed -> passed on once with status 200, denied -> status 429
\* with a Retry-After header and the handler not invoked.
C13_HandlerIffAllowed ==
    [][ (served' = served + 1 /\ mw.enabled)
        => LET o == StepOn(TheMap, resp'.key, now, TicksPerMs) IN
           ~o.panic =>
             /\ o.ok  => /\ resp'.handlerCalls = 1
                         /\ resp'.status = 200
                         /\ resp'.retryAfter = NoHeader
             /\ ~o.ok => /\ resp'.handlerCalls = 0
                         /\ resp'.status = 429
                         /\ resp'.retryAfter # NoHeader ]_vars

C13_Witness ==
    /\ Responded
    /\ mw.enabled
    /\ cfg.requests >= 1
    /\ served > Quota
    /\ resp.status = 429
    /\ resp.handlerCalls = 0

\* C15: with Enabled = false every request reaches the handler and gets its
\* answer: no 429, no X-RateLimit-* header, and no limiter state, whatever
\* the other config fields are.
C15_DisabledIsPassthrough ==
    ~mw.enabled =>
        /\ buckets = EmptyMap /\ slidingWindows = EmptyMap /\ fixedWindows = EmptyMap
        /\ Responded =>
              /\ resp.outcome = "handler"
              /\ resp.handlerCalls = 1
              /\ resp.status = 200
              /\ resp.limitHeader = NoHeader
              /\ resp.windowHeader = NoHeader
              /\ resp.retryAfter = NoHeader

C15_Witness ==
    /\ ~mw.enabled
    /\ Responded
    /\ served > Quota
    /\ resp.handlerCalls = 1

\* C18: every request ends in 'handler invoked' or '429 written', for every
\* Config the middleware can be built with.
C18_Claim ==
    Responded => resp.outcome \in {"handler", "429"}


\* --------------------------------------------------- claims, pure functions
\* C14: the Retry-After header of a denial is the wait time rounded up to
\* whole seconds: the least number of seconds that is at least the wait.
C14_Claim ==
    out.kind = "retryAfter"
    => /\ out.header * TicksPerSecond >= arg.ticks
       /\ (out.header - 1) * TicksPerSecond < arg.ticks \/ arg.ticks = 0

\* the first (or only) address of a header's list when it is a valid IP
FirstAddress(list) == IF list = <<>> THEN NoIP ELSE ParseIP(list[1])

\* C17: in ip mode the key is the first address of X-Forwarded-For when that
\* is a valid IP (a comma-separated chain included), else X-Real-IP when
\* valid, else the remote address without its port when valid, else the raw
\* remote address.
C17_Claim ==
    (out.kind = "key" /\ arg.config.extractor = "ip")
    => LET r == arg.r IN
       out.key = IF FirstAddress(r.xff) # NoIP THEN FirstAddress(r.xff)
                 ELSE IF ParseIP(HeaderText(r.xri)) # NoIP THEN ParseIP(HeaderText(r.xri))
                 ELSE IF r.remote.port # "" /\ ParseIP(r.remote.host) # NoIP
                      THEN ParseIP(r.remote.host)
                 ELSE RemoteAddrText(r.remote)

\* what C19 lists, with the names taken as compare(name)
Rejected(c, algorithm, extractor) ==
    \/ c.requests <= 0
    \/ c.window <= 0
    \/ c.burst < 0
    \/ algorithm \notin AlgorithmNames
    \/ extractor \notin ExtractorNames
    \/ extractor = "header" /\ c.header = ""

\* C19 as stated: with rate limiting enabled Load fails and the server does
\* not start when Requests <= 0, Window <= 0, Burst < 0, the algorithm is
\* not one of the three names, the extractor is not one of the three names,
\* or the extractor is header with an empty header name; disabled, none of
\* these causes an error.
C19_Original ==
    out.kind = "load"
    => LET c == arg.c IN
       /\ (c.enabled /\ Rejected(c, c.algorithm, c.extractor))
             => out.err # NoError /\ ~out.started
       /\ (~c.enabled /\ ~c.earlierErr) => out.err = NoError /\ out.started

\* C19 amended: the same with the algorithm and extractor names compared
\* without regard to letter case; and no other rate limit value fails Load.
C19_Amended ==
    out.kind = "load"
    => LET c == arg.c
           bad == c.enabled /\ Rejected(c, ToLower(c.algorithm), ToLower(c.extractor))
       IN  /\ bad => out.err # NoError /\ ~out.started
           /\ (~bad /\ ~c.earlierErr) => out.err = NoError /\ out.started
           /\ out.started <=> out.err = NoError

C19_Witness ==
    /\ out.kind = "load"
    /\ arg.c.enabled /\ ~arg.c.earlierErr
    /\ arg.c.requests = 1 /\ arg.c.window = 1 /\ arg.c.burst = 0
    /\ arg.c.algorithm = "SLIDING_WINDOW"
    /\ arg.c.extractor = "Header"
    /\ arg.c.header = ""
    /\ out.err = "header"


\* ------------------------------------------------------- claims, registry
IsRegistered(entry) == entry # NilConfig

\* the registered (non-nil) configurations, in registration order
Registered == SelectSeq(configurations, IsRegistered)

\* the position of the first one that fails to load, 0 when none does
FirstFailing(list) ==
    LET bad == { j \in 1..Len(list) : ShouldError(list[j]) }
    IN  IF bad = {} THEN 0 ELSE CHOOSE j \in bad : \A h \in bad : j <= h

\* C20: a call of config.Load calls Load on the registered configurations
\* in registration order up to and including the first that fails, and
\* returns its error: the ones before it are loaded, it and the later ones
\* are not loaded by the call; when none fails all are loaded and the result
\* is nil, also when Load is called again.
C20_LoadInOrder ==
    [][ loadResult' # loadResult
        => LET f == FirstFailing(Registered) IN
           IF f = 0
           THEN /\ loadCalls' = Registered
                /\ loadResult'.err = NoError
                /\ \A j \in 1..Len(Registered) : Registered[j] \in loaded'
           ELSE /\ loadCalls' = SubSeq(Registered, 1, f)
                /\ loadResult'.err = ErrorOf(Registered[f])
                /\ loadResult'.err # NoError
                /\ \A j \in 1..(f - 1) : Registered[j] \in loaded'
                /\ Registered[f] \notin loaded'
                /\ loaded' \ loaded \subseteq { Registered[j] : j \in 1..(f - 1) } ]_vars

C20_Witness ==
    /\ loadResult.kind = "load"
    /\ loadResult.n = 2
    /\ loadResult.err # NoError
    /\ Len(configurations) = 3
    /\ Len(loadCalls) = 2
    /\ loadCalls[1] \in loaded
    /\ configurations[3] \notin loaded \cup {NilConfig, loadCalls[2]}


\* ------------------------------------------------- claims, stored state
\* C27: every stored token count lies in 0..capacity; a call that changes a
\* key's bucket leaves the refilled count min(tokens + elapsed * rate,
\* capacity), less exactly one token when and only when the call is allowed,
\* so the count falls only in an allowed call and by at most one token; a
\* new key's bucket starts full and pays for its first call.
C27_TokenBounds ==
    [][ \A k \in Keys :
          k \in DOMAIN buckets' =>
            LET new == buckets'[k] IN
            /\ 0 <= new.tokens /\ new.tokens <= Full
            /\ k \notin DOMAIN buckets => new.tokens = Full - One
            /\ (k \in DOMAIN buckets /\ new # buckets[k]) =>
                 LET old   == buckets[k]
                     grown == Min(old.tokens + (now - old.lastSeen) * cfg.requests, Full)
                 IN  /\ new.lastSeen = now
                     /\ new.tokens \in {grown, grown - One}
                     /\ new.tokens = grown - One <=> last'[k].allowed
                     /\ new.tokens < old.tokens =>
                          last'[k].allowed /\ new.tokens >= old.tokens - One ]_vars

C27_Witness ==
    \E k \in DOMAIN buckets :
        /\ ~last[k].fresh /\ last[k].allowed
        /\ buckets[k].lastSeen = now
        /\ buckets[k].tokens = Full - One
        /\ Full > One
        /\ k \notin newborn

\* C28: in every reachable state an Allow(key) at `now` leaves at most
\* Requests timestamps for the key, each within (now - window, now], and
\* decides on the timestamps that are newer than now - window only.
C28_SlidingRetained ==
    cfg.algorithm = SlidingWindow =>
      \A k \in Keys :
        LET o      == SlidingWindowStep(slidingWindows, k, now)
            stored == IF k \in DOMAIN slidingWindows THEN slidingWindows[k] ELSE <<>>
            live   == { j \in 1..Len(stored) : stored[j] > now - cfg.window }
        IN  /\ Len(o.entry) <= cfg.requests
            /\ \A j \in 1..Len(o.entry) :
                  now - cfg.window < o.entry[j] /\ o.entry[j] <= now
            /\ o.ok <=> Cardinality(live) < cfg.requests
            /\ Len(o.entry) = Cardinality(live) + (IF o.ok THEN 1 ELSE 0)

\* a full key whose oldest timestamp is exactly one window old: the next
\* call prunes it and is allowed
C28_Witness ==
    /\ cfg.algorithm = SlidingWindow
    /\ \E k \in DOMAIN slidingWindows :
          /\ Len(slidingWindows[k]) = cfg.requests
          /\ cfg.requests >= 2
          /\ slidingWindows[k][1] = now - cfg.window
          /\ SlidingWindowStep(slidingWindows, k, now).ok
          /\ k \in DOMAIN last /\ last[k].allowed /\ ~last[k].fresh

\* C29: every stored count lies in 0..Requests; a call that finds
\* now - windowStart >= window starts a new window at `now` whose count is
\* that of this one call; any other change of a key's window is one allowed
\* call more in the same window.
C29_FixedCount ==
    [][ \A k \in Keys :
          k \in DOMAIN fixedWindows' =>
            LET new == fixedWindows'[k] IN
            /\ 0 <= new.count /\ new.count <= cfg.requests
            /\ k \notin DOMAIN fixedWindows => new = [count |-> 1, windowStart |-> now]
            /\ (k \in DOMAIN fixedWindows /\ new # fixedWindows[k]) =>
                 LET old == fixedWindows[k]
                     due == now - old.windowStart >= cfg.window
                 IN  /\ last'[k].allowed
                     /\ last'[k].rolled <=> due
                     /\ due  => new = [count |-> 1, windowStart |-> now]
                     /\ ~due => new = [count |-> old.count + 1,
                                        windowStart |-> old.windowStart] ]_vars

C29_Witness ==
    /\ cfg.algorithm = FixedWindow
    /\ \E k \in DOMAIN fixedWindows :
          /\ k \in DOMAIN last /\ last[k].rolled
          /\ k \notin newborn
          /\ fixedWindows[k] = [count |-> 1, windowStart |-> now]
          /\ cfg.requests >= 2

\* ------------------------------------------------- claims, a polling caller
\* C30: while a caller is being denied the bucket holds the tokens of the
\* first denial plus all the refill earned since, however many polls were
\* denied in between; once that reaches one token the next poll is allowed;
\* and a caller that keeps polling is eventually allowed.
C30_PollingEventuallyAllowed ==
    /\ [](poll.kind = "denied" =>
            LET bucket == buckets[PolledKey]
                earned == (now - poll.since) * cfg.requests
            IN  /\ bucket.tokens + (now - bucket.lastSeen) * cfg.requests
                     = poll.tokens + earned
                /\ poll.tokens + earned >= One
                     => TokenBucketStep(buckets, PolledKey, now, TicksPerMs).ok)
    /\ (poll.kind = "denied" /\ poll.since + cfg.window <= PollMaxTime)
          ~> poll.kind = "allowed"

\* allowed after polls denied at more than one instant
C30_Witness ==
    /\ poll.kind = "allowed"
    /\ poll.later = 1
    /\ poll.latest < now
    /\ (now - poll.since) * cfg.requests >= One - poll.tokens
    /\ (now - 1 - poll.since) * cfg.requests < One - poll.tokens

\* ------------------------------------------------------- claims, lifecycle
\* positions of the history with one of the events
At(evs) == { j \in 1..Len(trace) : trace[j].ev \in evs }

\* the APIs of the events, in the order of the history
RECURSIVE ApisOf(_, _)
ApisOf(events, ev) ==
    IF events = <<>> THEN <<>>
    ELSE IF Head(events).ev = ev THEN <<Head(events).api>> \o ApisOf(Tail(events), ev)
    ELSE ApisOf(Tail(events), ev)

Started == ApisOf(trace, "start")
Stopped == ApisOf(trace, "stop")

\* the registered APIs that implement LifecycleAPI, in registration order
LifecycleAPIs == SelectSeq(app.apis, IsLifecycle)

RECURSIVE Reverse(_)
Reverse(list) == IF list = <<>> THEN <<>> ELSE Append(Reverse(Tail(list)), Head(list))

\* C21: Start is called on the lifecycle APIs in registration order, all of
\* them before the server accepts a request; after a Start that fails no
\* further Start is called and the server never accepts.
C21_StartBeforeServing ==
    /\ Len(Started) <= Len(LifecycleAPIs)
    /\ \A j \in 1..Len(Started) :
          /\ Started[j] = LifecycleAPIs[j]
          /\ StartError(Started[j]) => j = Len(Started)
    /\ (At({"listening"}) # {} \/ runState.listener # "none" \/ runState.inflight > 0)
          => /\ Started = LifecycleAPIs
             /\ \A j \in 1..Len(Started) : ~StartError(Started[j])
             /\ \A j \in At({"start"}), h \in At({"listening"}) : j < h
    /\ (\E j \in 1..Len(Started) : StartError(Started[j]))
          => runState.pc = "fatal" /\ runState.listener = "none"

\* the second of three lifecycle APIs fails to start
C21_Witness ==
    /\ runState.pc = "fatal"
    /\ Len(Started) = 2
    /\ Len(LifecycleAPIs) = 3
    /\ StartError(Started[2])
    /\ At({"listening"}) = {}

\* C22: when the shutdown is over the Stop hooks have been called in the
\* reverse of the order of the Start hooks.
C22_Claim ==
    runState.pc = "returned" => Stopped = Reverse(Started)

\* C23: the server stops accepting, then the Stop hooks are called, then
\* the draining of the requests in flight at the shutdown completes.
C23_Claim ==
    \A j \in At({"stop"}) :
        /\ \E h \in At({"shutdown"}) : h < j
        /\ \A h \in At({"drained", "forced"}) :
              (\E g \in At({"shutdown"}) : trace[g].inflight > 0) => j < h

\* C24: when a Stop hook runs and when Run returns the server no longer
\* accepts requests, whichever listener serves.
C24_Claim ==
    \A j \in At({"stop", "returned"}) : ~trace[j].accepting

\* ------------------------------------------------ claims, error responses
\* the correlation id of the request: the one it carries, else a generated one
CorrelationOf(req, gen) ==
    LET id == ExtractCorrelationID(NewRequest(req)) IN IF id = "" THEN gen ELSE id

\* C25: in either nesting order of the panic and the request-id middleware,
\* the 500 response to a panic carries the correlation id of the request in
\* the X-Correlation-ID header and in the correlation_id field of the body.
C25_Claim ==
    (out.kind = "served" /\ arg.req.behaviour = "panic")
        => /\ out.w.status = 500
           /\ out.w.header.CorrelationID = CorrelationOf(arg.req, arg.gen)
           /\ HasField(out.w.body, "correlation_id")
           /\ out.w.body.correlation_id = CorrelationOf(arg.req, arg.gen)

\* ----------------------------------------------------------- claims, healthz
\* the checks of the Run that returned last which returned an error
FailedChecks == { n \in DOMAIN health.atStart : health.atStart[n] # NoError }

\* C26: a Run that no Register ran into has called every registered check
\* exactly once when it returns; it returns nil exactly when every check
\* returned nil, else an error that holds the error of every failing check;
\* the endpoint answers 503 when Run returned an error and 200 otherwise.
C26_RunJoinsEveryFailure ==
    (health.kind = "healthz" /\ health.result.kind # "none" /\ ~health.raced)
        => /\ \A n \in CheckNames :
                 health.calls[n] = IF n \in DOMAIN health.atStart THEN 1 ELSE 0
           /\ health.result.kind = "nil" <=> FailedChecks = {}
           /\ \A n \in FailedChecks :
                 \E j \in 1..Len(health.result.errs) :
                     health.result.errs[j] = health.atStart[n]
           /\ Len(health.result.errs) = Cardinality(FailedChecks)
           /\ health.status # 0 =>
                 health.status = (IF health.result.kind = "nil" THEN 200 ELSE 503)

\* TestRun: check1 returns nil, check2 fails, and the endpoint has answered
C26_Witness ==
    /\ health.kind = "healthz"
    /\ ~health.raced
    /\ DOMAIN health.atStart = {"check1", "check2"}
    /\ health.atStart["check1"] = NoError
    /\ health.atStart["check2"] = CheckError("check2")
    /\ health.calls = [n \in CheckNames |-> 1]
    /\ health.result = [kind |-> "error", errs |-> <<CheckError("check2")>>]
    /\ health.status = 503

\* ------------------------------------------------ claims, per-key state
\* C31: a key enters the limiter's map by the first Allow for it, allowed or
\* denied, and leaves it only by Reset of that key: an Allow removes no key,
\* and an operation on one key neither removes nor changes the entry of
\* another; the tracked keys are the keys called since their last Reset.
C31_KeysLeaveOnlyByReset ==
    [][ /\ DOMAIN TheMap' = DOMAIN last'
        /\ \A k \in Keys :
              /\ (k \in DOMAIN TheMap /\ k \notin DOMAIN TheMap')
                    => /\ k \in wasReset'
                       /\ \A j \in Keys \ {k} :
                             /\ j \in DOMAIN TheMap <=> j \in DOMAIN TheMap'
                             /\ j \in DOMAIN TheMap => TheMap'[j] = TheMap[j]
              /\ (k \notin DOMAIN TheMap /\ k \in DOMAIN TheMap')
                    => /\ last'[k].fresh
                       /\ DOMAIN TheMap' = DOMAIN TheMap \cup {k}
              /\ (k \in DOMAIN last' /\ (k \notin DOMAIN last \/ last'[k] # last[k]))
                    => DOMAIN TheMap \subseteq DOMAIN TheMap' ]_vars

\* key A was reset and is unseen since, key B is still tracked and its
\* latest call was a denial
C31_Witness ==
    /\ "A" \in wasReset
    /\ "A" \notin DOMAIN TheMap
    /\ "B" \in DOMAIN TheMap
    /\ ~last["B"].allowed

\* how often a Stop hook of the API was called
StopCalls(api) == Cardinality({ j \in At({"stop"}) : trace[j].api = api })

\* C32: when the shutdown is over Stop has been called exactly once on every
\* registered lifecycle API, those after a hook that returned an error
\* included, and the errors are logged; every hook is handed the context
\* created before the server was drained, so once the drain has used up the
\* timeout the hooks receive a context that has expired.
C32_EveryStopOnce ==
    /\ \A j \in At({"stop"}) :
          /\ \E h \in At({"shutdown"}) : h < j /\ trace[h].ctx = "none"
          /\ trace[j].ctx \in {"running", "expired"}
          /\ (\E h \in At({"forced"}) : h < j) => trace[j].ctx = "expired"
          /\ \A h \in At({"stop"}) : (h < j /\ trace[h].ctx = "expired")
                                        => trace[j].ctx = "expired"
    /\ \A api \in ApiPool : StopCalls(api) <= 1
    /\ runState.pc = "returned"
          => /\ \A api \in ApiPool :
                   StopCalls(api) = IF \E j \in 1..Len(app.apis) : app.apis[j] = api
                                       /\ IsLifecycle(api)
                                    THEN 1 ELSE 0
             /\ runState.logged = { api \in ApiPool : StopCalls(api) = 1 /\ StopError(api) }

\* worker's Stop failed, db's Stop ran after it, and the drain had used up
\* the timeout
C32_Witness ==
    /\ runState.pc = "returned"
    /\ Stopped = <<"worker", "db">>
    /\ runState.logged = {"worker"}
    /\ At({"forced"}) # {}
    /\ \A j \in At({"stop"}) : trace[j].ctx = "expired"

\* ------------------------------------------------ claims, denied calls
\* the step is no Reset and touches neither the entry nor the history of a
\* key other than k
OnlyKey(k) ==
    /\ wasReset' = wasReset
    /\ \A j \in Keys \ {k} :
          /\ j \in DOMAIN last <=> j \in DOMAIN last'
          /\ j \in DOMAIN last => last'[j] = last[j] /\ TheMap'[j] = TheMap[j]

\* C33: a denied Allow uses up no quota.  A denied call for a tracked key
\* has added no timestamp to the key's sliding window (it may have pruned some), left
\* the count and the start of its fixed window as they were and not lowered
\* its tokens; and every later call for the key is answered, and leaves the
\* entry, exactly as if the denied call had not been made.
C33_DenialUsesNoQuota ==
    [][ \A k \in Keys :
          (/\ now' = now
           /\ OnlyKey(k)
           /\ k \in DOMAIN TheMap /\ k \in DOMAIN TheMap'
           /\ k \in DOMAIN last' /\ ~last'[k].allowed)
          => /\ cfg.algorithm = SlidingWindow
                   => /\ TheMap'[k] = Prune(TheMap[k], now - cfg.window)
                      /\ Len(TheMap'[k]) <= Len(TheMap[k])
             /\ cfg.algorithm = FixedWindow => TheMap'[k] = TheMap[k]
             /\ cfg.algorithm = TokenBucket => TheMap'[k].tokens >= TheMap[k].tokens
             /\ \A t \in now..MaxTime :
                   StepOn(TheMap', k, t, 0) = StepOn(TheMap, k, t, 0) ]_vars

\* a denied call has just refilled the bucket of a key without taking a
\* token, and the call before it was a denial too
C33_Witness ==
    /\ cfg.algorithm = TokenBucket
    /\ "A" \in DOMAIN last
    /\ ~last["A"].allowed
    /\ last["A"].retry = "early"
    /\ buckets["A"].lastSeen = now
    /\ buckets["A"].tokens > 0

\* ------------------------------------------- claims, order of timestamps
\* C34: the timestamps a sliding window keeps for a key are in
\* non-decreasing order, so the first is the oldest; the wait of a denial is
\* counted from that oldest retained admission.
C34_TimestampsOrdered ==
    cfg.algorithm = SlidingWindow =>
        \A k \in DOMAIN slidingWindows :
            LET stamps == slidingWindows[k]
                step   == SlidingWindowStep(slidingWindows, k, now)
            IN  /\ \A i, j \in 1..Len(stamps) : i <= j => stamps[i] <= stamps[j]
                /\ \A j \in 1..Len(stamps) : stamps[j] <= now
                /\ ~step.ok
                      => /\ \A j \in 1..Len(step.entry) : step.entry[1] <= step.entry[j]
                         /\ step.wait = cfg.window - (now - step.entry[1])
                /\ ~last[k].allowed
                      => /\ stamps # <<>>
                         /\ \A j \in 1..Len(stamps) :
                               last[k].readyAt <= stamps[j] + cfg.window
                         /\ last[k].readyAt = stamps[1] + cfg.window

\* a key was denied while it held two admissions of different times
C34_Witness ==
    /\ cfg.algorithm = SlidingWindow
    /\ "A" \in DOMAIN slidingWindows
    /\ Len(slidingWindows["A"]) = 2
    /\ slidingWindows["A"][1] < slidingWindows["A"][2]
    /\ ~last["A"].allowed
    /\ last["A"].readyAt = slidingWindows["A"][1] + cfg.window

\* ------------------------------------------- claims, clock under the lock
\* the newest time an entry holds: lastSeen, windowStart, the last timestamp
NewestTime(entry) ==
    CASE cfg.algorithm = TokenBucket   -> entry.lastSeen
      [] cfg.algorithm = FixedWindow   -> entry.windowStart
      [] cfg.algorithm = SlidingWindow -> IF entry = <<>> THEN 0 ELSE entry[Len(entry)]

\* C35: a caller reads the clock while it holds the lock, so whatever the
\* interleaving the newest time stored for a key never moves backwards, and
\* the clock reading a call computes with is not before the time stored in
\* the entry it read: the elapsed time is never negative.
C35_ClockUnderLock ==
    [][ /\ \A c \in Callers :
              (pc'[c] = "write" /\ call'[c].kind = "allow")
                  => /\ mu' = c
                     /\ snap'[c].t <= now'
                     /\ \A k \in DOMAIN snap'[c].m :
                           /\ snap'[c].m[k] = TheMap'[k]
                           /\ snap'[c].t - NewestTime(snap'[c].m[k]) >= 0
        /\ \A k \in DOMAIN TheMap \cap DOMAIN TheMap' :
              NewestTime(TheMap'[k]) >= NewestTime(TheMap[k]) ]_vars

\* two goroutines have called Allow for key A at different clock readings,
\* the later one after waiting for the lock
C35_Witness ==
    /\ contended
    /\ ~tally["A"].instant
    /\ tally["A"].allowed + tally["A"].denied >= 2
    /\ "A" \in DOMAIN TheMap
    /\ NewestTime(TheMap["A"]) > tally["A"].first

\* ------------------------------------------- claims, fixed window anchor
\* C36: the windowStart of a key is the time of the first allowed call of
\* the window it is in, and a window is closed, and the count reset, only by
\* a call that comes at least Window after that first allowed call.
C36_WindowAnchored ==
    cfg.algorithm = FixedWindow =>
        \A k \in DOMAIN fixedWindows :
            LET w == fixedWindows[k] IN
            /\ w.windowStart = last[k].first
            /\ w.windowStart <= now
            /\ w.count >= 1
            /\ now - w.windowStart <= cfg.window
                  => \E j \in 1..Len(admitted[k]) : admitted[k][j] = w.windowStart
            /\ ~last[k].rolledEarly
            /\ (last[k].rolled /\ k \notin wasReset) => w.windowStart >= cfg.window

\* a call closed the first window of a key exactly one Window after the
\* first allowed call, and the new window has admitted a second call later
C36_Witness ==
    /\ cfg.algorithm = FixedWindow
    /\ "A" \in DOMAIN fixedWindows
    /\ "A" \notin wasReset
    /\ fixedWindows["A"].windowStart = cfg.window
    /\ fixedWindows["A"].count = 2
    /\ fixedWindows["A"].windowStart < now
    /\ last["A"].allowed

\* ------------------------------------------- claims, token bucket ceiling
\* C37: token bucket: for one key, the number of allowed calls in any
\* interval of length Window (the closed interval [now - Window, now] that
\* ends at each clock reading) never exceeds capacity + Requests.
C37_CapacityPlusRefill ==
    cfg.algorithm = TokenBucket =>
        \A k \in DOMAIN admitted :
            InClosedInterval(k) <= Capacity(cfg.requests, cfg.burst) + cfg.requests

\* a full bucket larger than the rate was emptied, and exactly one Window
\* later the refill has been spent as well: the ceiling is met
C37_Witness ==
    /\ cfg.algorithm = TokenBucket
    /\ cfg.burst > cfg.requests
    /\ \E k \in DOMAIN admitted :
        /\ InClosedInterval(k) = cfg.burst + cfg.requests
        /\ admitted[k][1] = now - cfg.window
        /\ ~last[k].allowed

\* ------------------------------------------- claims, Load beside Register
\* the list a header stands for
ListOf(header) == SubSeq(registry.arrays[header.data], 1, header.len)

\* the headers the variable held between two calls, and the one the call
\* in progress is storing
WholeHeaders == registry.published \cup {registry.writer.next}

\* C38: a Load that runs beside Register or Reset reads the list as it was
\* before or as it is after that call, never a torn one: the slots it
\* ranges over lie inside the backing array and hold a list the registry
\* had between two calls, and no call of Load faults.
C38_Claim ==
    /\ registry.loader.pc # "idle"
          => /\ InArray(registry.arrays, registry.loader.seen, registry.loader.seen.len)
             /\ \E h \in WholeHeaders : ListOf(h) = ListOf(registry.loader.seen)
    /\ registry.loader.pc # "fault"

\* ------------------------------------------- claims, Run beside Register
\* C39: Run works on a snapshot of the checks taken under the lock: a
\* Register beside a Run in progress does not write the map while the range
\* of Run reads it, the process is not stopped for it, and the checks the
\* range starts are those registered when Run began, with the functions
\* they had then.
C39_Claim ==
    /\ ~health.raced
    /\ health.pc # "fatal"
    /\ health.visited \subseteq DOMAIN health.atStart
    /\ \A g \in health.running : g.err = health.atStart[g.name]

\* ------------------------------------------- claims, keys from headers
\* the address the headers of a request spell, X-Forwarded-For first
HeaderAddress(r) ==
    IF ParseIP(HeaderText(r.xff)) # NoIP THEN ParseIP(HeaderText(r.xff))
    ELSE ParseIP(HeaderText(r.xri))

\* whatever the connection, a valid address in a header is the key
HeadersDecide ==
    \A r \in HttpRequests :
        HeaderAddress(r) # NoIP => ExtractIPFromRequest(r) = HeaderAddress(r)

\* C40: in ip mode the key of a request is the address its X-Forwarded-For
\* (or X-Real-IP) header spells, not the address of the connection; requests
\* of one remote address with different header values are counted against
\* different keys, and a key not seen before starts with full capacity: its
\* request is admitted whatever the other keys have used, and it leaves the
\* state of the other keys as it was.
C40_HeadersChooseTheKey ==
    [][ (/\ served' = served + 1
         /\ Limits(mw.enabled) /\ mw.extractor = "ip"
         /\ cfg.requests >= 1)
        => /\ HeadersDecide
           /\ \E r \in MwRequests : resp'.key = ExtractKey(r, mw)
           /\ resp'.key \notin DOMAIN TheMap
                 => resp'.allowed /\ resp'.outcome = "handler"
           /\ \A j \in DOMAIN TheMap \ {resp'.key} :
                 j \in DOMAIN TheMap' /\ TheMap'[j] = TheMap[j] ]_vars

\* one remote address, Requests = 1, no time passing: a request is admitted,
\* a second is refused, and a third that carries another X-Forwarded-For
\* address is admitted under a key of its own
C40_Witness ==
    /\ mw.enabled /\ mw.extractor = "ip"
    /\ cfg.algorithm = FixedWindow /\ cfg.requests = 1
    /\ now = 0 /\ served = 3
    /\ DOMAIN fixedWindows = {"10.0.0.1", "10.0.0.2"}
    /\ \A k \in DOMAIN fixedWindows : fixedWindows[k].count = 1
    /\ resp.allowed /\ resp.key = "10.0.0.2"

====
